---- MODULE Spec2Model ----
(***************************************************************************)
(* Webhook dispatch and background pull-request analysis of ai-codereview  *)
(* (backend/app/services/webhook_handler.py, github_integration.py).       *)
(*                                                                         *)
(* Every action is one atomic segment of one coroutine on the asyncio      *)
(* event loop: from the point where the coroutine is resumed up to its     *)
(* next suspending await (a GitHub HTTP call or the analysis gather).      *)
(* `calls[r]` is the sequence of GitHub requests issued on behalf of       *)
(* webhook delivery r, in issue order; `logged[r]` is what the background  *)
(* task of r wrote to the logger.                                          *)
(*                                                                         *)
(* The functions the dispatch relies on are also taken on their own, one   *)
(* call at a time, each under its own specification: the signature check   *)
(* (VerifySpec: api/dependencies.py, validate_webhook_signature), the      *)
(* GitHub client (ClientSpec: github_integration.py) and the analyzer      *)
(* (AnalyzerSpec: code_analyzer.py).                                       *)
(***************************************************************************)
EXTENDS Integers, Sequences, FiniteSets, TLC

VARIABLES hw, run, calls, logged, call, http, ret

\* One call of a function of the services taken on its own: `call` is the
\* invocation (function, arguments, position), `http` the requests it has sent
\* to GitHub or to the inference provider, `ret` how it ended.
unit == <<call, http, ret>>

vars == <<hw, run, calls, logged, call, http, ret>>

---------------------------------------------------------------------------
(* Bounds of the model *)

MaxFiles == 3

\* The webhook deliveries of the model.
Reqs == {1}

---------------------------------------------------------------------------
(* Inputs *)

\* X-GitHub-Event values: the four mapped ones and two that are not mapped.
EventTypeStrings ==
    {"pull_request", "push", "pull_request_review", "check_run", "issues", "ping"}

\* payload["action"]; "None" is an absent key.
ActionStrings ==
    {"opened", "synchronize", "ready_for_review", "reopened", "closed", "None"}

\* pull_request.number; 0 stands for every falsy value (absent key, null, 0).
PrNumbers == {0, 42}

\* A path is the sequence of its '.'-separated pieces, as file_path.split('.')
\* returns them; <<"">> is the empty path.
FilePaths == {<<"src/main", "py">>, <<"README", "md">>, <<"Makefile">>}

\* One entry of the changed-file list: the keys the JSON object has, and the
\* value under "filename".
FileInfos ==
    {[keys |-> {"filename"}, filename |-> p] : p \in FilePaths}
        \cup {[keys |-> {}, filename |-> <<"">>]}

RECURSIVE SeqsUpTo(_, _)
SeqsUpTo(S, n) ==
    IF n = 0 THEN {<<>>}
    ELSE LET shorter == SeqsUpTo(S, n - 1)
         IN  shorter \cup {Append(s, x) : s \in {t \in shorter : Len(t) = n - 1}, x \in S}

FileLists == SeqsUpTo(FileInfos, MaxFiles)

\* len(analysis_result.security_issues): one finding at most per security
\* pattern, four patterns.
IssueCounts == {0, 1, 4}

\* analysis_result.quality_score
QualityScores == {55, 70, 95}

AnalysisResults == [issues : IssueCounts, quality : QualityScores]

---------------------------------------------------------------------------
(* WebhookEventType, PullRequestAction *)

EventTypeMapping == {"pull_request", "push", "pull_request_review", "check_run"}

\* The mapping's default written as PUSH.
WebhookEventType_DefaultPush(event_type) ==
    IF event_type \in EventTypeMapping THEN event_type ELSE "push"

WebhookEventType(event_type) ==
    IF event_type \in EventTypeMapping THEN event_type ELSE "unknown"

PullRequestAction == {"opened", "synchronize", "ready_for_review", "reopened"}

---------------------------------------------------------------------------
(* GitHub calls *)

\* What a request carries, as far as the model reads it: the kind of comment,
\* the index of the file it is about, and the numbers the comment shows.
NoBody ==
    [kind |-> "", idx |-> 0, quality |-> 0, issues |-> 0,
     files_analyzed |-> 0, total_issues |-> 0, remark |-> ""]

Call(by, op, body) == [by |-> by, op |-> op, body |-> body]

Get(by, op) == Call(by, op, NoBody)

GetContent(i) ==
    Call("task", "get_file_content", [NoBody EXCEPT !.idx = i])

Post(by, kind) ==
    Call(by, "post_review_comment", [NoBody EXCEPT !.kind = kind])

---------------------------------------------------------------------------
(* State *)

\* The webhook payload, as far as _parse_webhook_event reads it: whether the
\* objects it dereferences ("repository", "owner", "sender", "pull_request",
\* ...) are JSON objects or absent, the "action" and the pull request number.
Payloads == [well_formed : BOOLEAN, action : ActionStrings, number : PrNumbers]

NoEvent == [event_type |-> "unknown", pr_action |-> "None", pr_number |-> 0]

NoResponse == [status |-> "", message |-> <<>>]

\* One handle_webhook invocation.
InitHw ==
    [pc |-> "idle",
     event_type |-> "",
     payload |-> [well_formed |-> TRUE, action |-> "None", number |-> 0],
     event |-> NoEvent,
     pr_info |-> "None",
     changed_files |-> <<>>,
     tasks_created |-> 0,
     response |-> NoResponse]

\* One _analyze_pull_request_files task.
InitRun ==
    [pc |-> "none",
     changed_files |-> <<>>,
     idx |-> 0,
     analysis_results |-> <<>>,
     total_issues |-> 0,
     exc |-> "None"]

\* No webhook delivery has arrived.
NoDelivery ==
    /\ hw = [r \in Reqs |-> InitHw]
    /\ run = [r \in Reqs |-> InitRun]
    /\ calls = [r \in Reqs |-> <<>>]
    /\ logged = [r \in Reqs |-> <<>>]

NoCall == [fn |-> "", pc |-> "none"]

NoReturn == [kind |-> "none"]

Init ==
    /\ NoDelivery
    /\ call = NoCall
    /\ http = <<>>
    /\ ret = NoReturn

---------------------------------------------------------------------------
(* WebhookHandler *)

\* _parse_webhook_event: raises when a .get() is applied to something that is
\* not an object; the pull request fields are set for pull_request only.
ParseWebhookEvent(event_type, payload) ==
    [raised |-> ~payload.well_formed,
     event |->
        IF WebhookEventType(event_type) = "pull_request"
        THEN [event_type |-> "pull_request",
              pr_action |-> payload.action,
              pr_number |-> payload.number]
        ELSE [NoEvent EXCEPT !.event_type = WebhookEventType(event_type)]]

IgnoredResponse(event_type) ==
    [status |-> "ignored",
     message |-> <<"Event type '", event_type, "' not supported">>]

SuccessResponse ==
    [status |-> "success", message |-> <<"Event processed successfully">>]

FailedResponse ==
    [status |-> "error", message |-> <<"Event processing failed">>]

ExceptionResponse ==
    [status |-> "error", message |-> <<"Webhook processing failed: ", "exception">>]

\* Lines 480-489 answering success whatever _dispatch_event returned.
DispatchResponse_AlwaysSuccess(success) == SuccessResponse

\* handle_webhook lines 480-489: the response for _dispatch_event's result.
DispatchResponse(success) ==
    IF success THEN SuccessResponse ELSE FailedResponse

Return(h, response) ==
    [h EXCEPT !.pc = "returned", !.response = response]

\* Lines 117-124 without the check of the action.
PullRequestEntry_AnyAction(event) ==
    IF event.pr_number = 0 THEN "false" ELSE "await"

\* Lines 117-124 without the check of the pull request number.
PullRequestEntry_NoNumberCheck(event) ==
    IF event.pr_action \notin PullRequestAction THEN "true" ELSE "await"

\* process_pull_request_event lines 117-124, up to the first await:
\* "false", "true", or "await" when get_pull_request_info is called.
PullRequestEntry(event) ==
    IF event.pr_number = 0 THEN "false"
    ELSE IF event.pr_action \notin PullRequestAction THEN "true"
    ELSE "await"

\* _dispatch_event routing every recognised event to
\* process_pull_request_event.
DispatchEntry_AllPullRequest(event) == PullRequestEntry(event)

\* _dispatch_event, up to the first await of the processor it routes to.
DispatchEntry(event) ==
    IF event.event_type = "pull_request" THEN PullRequestEntry(event)
    ELSE IF event.event_type = "push" THEN "true"
    ELSE "true"

\* handle_webhook from its call to its first suspension or its return.
HandleWebhook(r) ==
    /\ hw[r].pc = "idle"
    /\ \E event_type \in EventTypeStrings, payload \in Payloads :
        LET parsed == ParseWebhookEvent(event_type, payload)
            h == [hw[r] EXCEPT !.event_type = event_type,
                               !.payload = payload,
                               !.event = IF parsed.raised THEN NoEvent ELSE parsed.event]
            entry == DispatchEntry(parsed.event)
        IN  IF parsed.raised
            THEN /\ hw' = [hw EXCEPT ![r] = Return(h, ExceptionResponse)]
                 /\ UNCHANGED calls
            ELSE IF parsed.event.event_type = "unknown"
            THEN /\ hw' = [hw EXCEPT ![r] = Return(h, IgnoredResponse(event_type))]
                 /\ UNCHANGED calls
            ELSE IF entry = "await"
            THEN /\ hw' = [hw EXCEPT ![r] = [h EXCEPT !.pc = "get_pull_request_info"]]
                 /\ calls' = [calls EXCEPT ![r] =
                                Append(@, Get("handler", "get_pull_request_info"))]
            ELSE /\ hw' = [hw EXCEPT ![r] = Return(h, DispatchResponse(entry = "true"))]
                 /\ UNCHANGED calls
    /\ UNCHANGED <<run, logged, unit>>

\* get_pull_request_info returns: a PullRequestInfo, or None on a non-200
\* status or any exception.
PrInfoReturns(r) ==
    /\ hw[r].pc = "get_pull_request_info"
    /\ \E pr_info \in {"PullRequestInfo", "None"} :
        IF pr_info = "None"
        THEN /\ hw' = [hw EXCEPT ![r] = Return(@, DispatchResponse(FALSE))]
             /\ UNCHANGED calls
        ELSE /\ hw' = [hw EXCEPT ![r].pc = "fetch_pull_request_files",
                                 ![r].pr_info = pr_info]
             /\ calls' = [calls EXCEPT ![r] =
                            Append(@, Get("handler", "fetch_pull_request_files"))]
    /\ UNCHANGED <<run, logged, unit>>

\* asyncio.create_task(self._analyze_pull_request_files(event, pr_info,
\* changed_files)): the task is scheduled, it has not run yet.
CreateTask(rn, changed_files) ==
    [rn EXCEPT !.pc = "created", !.changed_files = changed_files]

\* Lines 150-168 without the `if not changed_files:` branch.
FilesReturn_NoEmptyCheck(r) ==
    /\ hw[r].pc = "fetch_pull_request_files"
    /\ \E changed_files \in FileLists :
        /\ hw' = [hw EXCEPT ![r] =
                        Return([@ EXCEPT !.changed_files = changed_files,
                                         !.tasks_created = @ + 1],
                               DispatchResponse(TRUE))]
        /\ run' = [run EXCEPT ![r] = CreateTask(@, changed_files)]
    /\ UNCHANGED <<calls, logged, unit>>

\* Lines 161-168 with the created task awaited before the return.
FilesReturn_Awaited(r) ==
    /\ hw[r].pc = "fetch_pull_request_files"
    /\ \E changed_files \in FileLists :
        IF changed_files = <<>>
        THEN /\ hw' = [hw EXCEPT ![r].pc = "post_no_files",
                                 ![r].changed_files = changed_files]
             /\ calls' = [calls EXCEPT ![r] = Append(@, Post("handler", "no_files"))]
             /\ UNCHANGED run
        ELSE /\ hw' = [hw EXCEPT ![r].pc = "await_task",
                                 ![r].changed_files = changed_files,
                                 ![r].tasks_created = @ + 1]
             /\ run' = [run EXCEPT ![r] = CreateTask(@, changed_files)]
             /\ UNCHANGED calls
    /\ UNCHANGED <<logged, unit>>

\* fetch_pull_request_files returns the list ([] on a non-200 status or any
\* exception); lines 150-168 run to the next await or to the return.
FilesReturn(r) ==
    /\ hw[r].pc = "fetch_pull_request_files"
    /\ \E changed_files \in FileLists :
        IF changed_files = <<>>
        THEN /\ hw' = [hw EXCEPT ![r].pc = "post_no_files",
                                 ![r].changed_files = changed_files]
             /\ calls' = [calls EXCEPT ![r] = Append(@, Post("handler", "no_files"))]
             /\ UNCHANGED run
        ELSE /\ hw' = [hw EXCEPT ![r] =
                        Return([@ EXCEPT !.changed_files = changed_files,
                                         !.tasks_created = @ + 1],
                               DispatchResponse(TRUE))]
             /\ run' = [run EXCEPT ![r] = CreateTask(@, changed_files)]
             /\ UNCHANGED calls
    /\ UNCHANGED <<logged, unit>>

\* Line 159 written `return False`.
NoFilesPostReturns_False(r) ==
    /\ hw[r].pc = "post_no_files"
    /\ hw' = [hw EXCEPT ![r] = Return(@, DispatchResponse(FALSE))]
    /\ UNCHANGED <<run, calls, logged, unit>>

\* post_review_comment returns True or False; the result is discarded.
NoFilesPostReturns(r) ==
    /\ hw[r].pc = "post_no_files"
    /\ \E posted \in BOOLEAN :
        hw' = [hw EXCEPT ![r] = Return(@, DispatchResponse(TRUE))]
    /\ UNCHANGED <<run, calls, logged, unit>>

---------------------------------------------------------------------------
(* WebhookProcessor._analyze_pull_request_files *)

\* str.lower() on the pieces the model uses.
Lower(piece) ==
    CASE piece = "PY" -> "py"
      [] piece = "MD" -> "md"
      [] OTHER -> piece

AnalyzableExtensions ==
    {"py", "js", "ts", "java", "cpp", "cc", "cxx", "c", "h",
     "go", "rs", "php", "rb", "swift", "kt", "scala", "cs"}

\* _should_analyze_file
ShouldAnalyzeFile(file_path) ==
    IF file_path = <<"">> THEN FALSE
    ELSE LET extension ==
                IF Len(file_path) > 1 THEN Lower(file_path[Len(file_path)]) ELSE ""
         IN  extension \in AnalyzableExtensions

\* The for loop from entry i up to the entry that stops it: a KeyError on
\* file_info["filename"], a file whose content is fetched, or the end.
Log(level, msg, i) == [level |-> level, msg |-> msg, idx |-> i]

RECURSIVE NextFile(_, _, _)
NextFile(changed_files, i, logs) ==
    IF i > Len(changed_files)
    THEN [stop |-> "end", idx |-> i, logs |-> logs]
    ELSE IF "filename" \notin changed_files[i].keys
    THEN [stop |-> "raise", idx |-> i, logs |-> logs]
    ELSE IF ~ShouldAnalyzeFile(changed_files[i].filename)
    THEN NextFile(changed_files, i + 1, Append(logs, Log("debug", "Skipping file", i)))
    ELSE [stop |-> "fetch", idx |-> i,
          logs |-> Append(logs, Log("info", "Analyzing file", i))]

\* _format_file_analysis_comment
FormatFileAnalysisComment(analysis_result, i) ==
    [NoBody EXCEPT !.kind = "detail", !.idx = i,
                   !.quality = analysis_result.quality,
                   !.issues = analysis_result.issues]

\* Lines 410-415 with the middle tier ending below 3.
OverallRecommendation_Below3(total_issues) ==
    IF total_issues = 0 THEN "Great job!"
    ELSE IF total_issues < 3 THEN "Good work!"
    ELSE "Attention needed."

\* Lines 410-415 with every total but 0 in the last tier.
OverallRecommendation_TwoTiers(total_issues) ==
    IF total_issues = 0 THEN "Great job!"
    ELSE "Attention needed."

\* The closing remark of the summary, lines 409-415.
OverallRecommendation(total_issues) ==
    IF total_issues = 0 THEN "Great job!"
    ELSE IF total_issues <= 3 THEN "Good work!"
    ELSE "Attention needed."

\* _format_summary_comment
FormatSummaryComment(analysis_results, total_issues) ==
    [NoBody EXCEPT !.kind = "summary",
                   !.files_analyzed = Len(analysis_results),
                   !.total_issues = total_issues,
                   !.remark = OverallRecommendation(total_issues)]

\* The except clause re-raising instead of posting: the task dies with the
\* exception.
ExceptClause_Reraise(rn) ==
    [run |-> [rn EXCEPT !.pc = "crashed"],
     calls |-> <<>>,
     logs |-> <<Log("error", "Error in background analysis", rn.idx)>>]

\* The except clause, lines 297-307.
ExceptClause(rn) ==
    [run |-> [rn EXCEPT !.pc = "post_failed"],
     calls |-> <<Post("task", "failed")>>,
     logs |-> <<Log("error", "Error in background analysis", rn.idx)>>]

\* An exception e is raised inside the try block.
Raise(rn, e) == ExceptClause([rn EXCEPT !.exc = e])

\* Lines 280-295 without the `if analysis_results:` guard.
AfterLoop_Unguarded(rn) ==
    [run |-> [rn EXCEPT !.pc = "post_summary"],
     calls |-> <<Call("task", "post_review_comment",
                      FormatSummaryComment(rn.analysis_results, rn.total_issues))>>,
     logs |-> <<>>]

\* Lines 280-295, after the loop.
AfterLoop(rn) ==
    IF rn.analysis_results # <<>>
    THEN [run |-> [rn EXCEPT !.pc = "post_summary"],
          calls |-> <<Call("task", "post_review_comment",
                           FormatSummaryComment(rn.analysis_results, rn.total_issues))>>,
          logs |-> <<>>]
    ELSE [run |-> [rn EXCEPT !.pc = "completed"],
          calls |-> <<>>,
          logs |-> <<Log("info", "Completed analysis", Len(rn.analysis_results))>>]

WithLogs(logs, out) == [out EXCEPT !.logs = logs \o @]

\* The loop requesting the content of the entry after the next one along with
\* it, instead of one awaited request per iteration.
Resume_Prefetch(rn, i) ==
    LET nf == NextFile(rn.changed_files, i, <<>>)
        at == [rn EXCEPT !.idx = nf.idx]
    IN  CASE nf.stop = "fetch" ->
                [run |-> [at EXCEPT !.pc = "get_file_content"],
                 calls |-> IF nf.idx < Len(rn.changed_files)
                           THEN <<GetContent(nf.idx + 1), GetContent(nf.idx)>>
                           ELSE <<GetContent(nf.idx)>>,
                 logs |-> nf.logs]
          [] nf.stop = "raise" -> WithLogs(nf.logs, Raise(at, "KeyError"))
          [] OTHER -> WithLogs(nf.logs, AfterLoop(at))

\* The task runs on from loop entry i to its next await or to its end.
Resume(rn, i) ==
    LET nf == NextFile(rn.changed_files, i, <<>>)
        at == [rn EXCEPT !.idx = nf.idx]
    IN  CASE nf.stop = "fetch" ->
                [run |-> [at EXCEPT !.pc = "get_file_content"],
                 calls |-> <<GetContent(nf.idx)>>,
                 logs |-> nf.logs]
          [] nf.stop = "raise" -> WithLogs(nf.logs, Raise(at, "KeyError"))
          [] OTHER -> WithLogs(nf.logs, AfterLoop(at))

\* Line 269 with the comparison written <=.
NeedsDetailComment_Inclusive(analysis_result) ==
    analysis_result.issues > 0 \/ analysis_result.quality <= 70

\* Line 269.
NeedsDetailComment(analysis_result) ==
    analysis_result.issues > 0 \/ analysis_result.quality < 70

\* Lines 258-266 with total_issues kept in one place for every run, not in a
\* local of the run.
TrackResult_Shared(rn, analysis_result) ==
    LET RECURSIVE Total(_)
        Total(rs) == IF rs = {} THEN 0
                     ELSE LET q == CHOOSE q \in rs : TRUE
                          IN  run[q].total_issues + Total(rs \ {q})
    IN  [rn EXCEPT !.total_issues =
                        IF Total(DOMAIN run) > @ THEN Total(DOMAIN run) + analysis_result.issues
                        ELSE @ + analysis_result.issues,
                   !.analysis_results =
                        Append(@, [file |-> rn.changed_files[rn.idx].filename,
                                   result |-> analysis_result,
                                   issues_count |-> analysis_result.issues])]

\* Lines 258-266.
TrackResult(rn, analysis_result) ==
    [rn EXCEPT !.total_issues = @ + analysis_result.issues,
               !.analysis_results =
                    Append(@, [file |-> rn.changed_files[rn.idx].filename,
                               result |-> analysis_result,
                               issues_count |-> analysis_result.issues])]

\* Lines 280-290 indented into the for loop: a file that needs no detailed
\* comment gets the summary so far, and the loop goes on.
AfterAnalysis_SummaryInLoop(rn, analysis_result) ==
    LET tracked == TrackResult(rn, analysis_result)
    IN  [run |-> [tracked EXCEPT !.pc = "post_detail"],
         calls |-> <<Call("task", "post_review_comment",
                          IF NeedsDetailComment(analysis_result)
                          THEN FormatFileAnalysisComment(analysis_result, rn.idx)
                          ELSE FormatSummaryComment(tracked.analysis_results,
                                                    tracked.total_issues))>>,
         logs |-> <<>>]

\* Lines 258-278, after analyze_code has returned analysis_result.
AfterAnalysis(rn, analysis_result) ==
    LET tracked == TrackResult(rn, analysis_result)
    IN  IF NeedsDetailComment(analysis_result)
        THEN [run |-> [tracked EXCEPT !.pc = "post_detail"],
              calls |-> <<Call("task", "post_review_comment",
                               FormatFileAnalysisComment(analysis_result, rn.idx))>>,
              logs |-> <<>>]
        ELSE Resume(tracked, rn.idx + 1)

Continue(r, out) ==
    /\ run' = [run EXCEPT ![r] = out.run]
    /\ calls' = [calls EXCEPT ![r] = @ \o out.calls]
    /\ logged' = [logged EXCEPT ![r] = @ \o out.logs]
    /\ UNCHANGED <<hw, unit>>

\* The event loop runs the task for the first time: lines 216-225.
RunStart(r) ==
    /\ run[r].pc = "created"
    /\ Continue(r, [run |-> [run[r] EXCEPT !.pc = "post_started"],
                    calls |-> <<Post("task", "started")>>,
                    logs |-> <<Log("info", "Starting background analysis", 0)>>])

\* The "Analysis started" post returns; lines 227-247.
StartedPostReturns(r) ==
    /\ run[r].pc = "post_started"
    /\ \E posted \in BOOLEAN :
        Continue(r, Resume([run[r] EXCEPT !.analysis_results = <<>>,
                                          !.total_issues = 0], 1))

\* Line 251 written `return`.
ContentReturns_EarlyReturn(r) ==
    /\ run[r].pc = "get_file_content"
    /\ \E file_content \in {"None", "", "text"} :
        IF file_content \in {"None", ""}
        THEN Continue(r, [run |-> [run[r] EXCEPT !.pc = "completed"],
                          calls |-> <<>>,
                          logs |-> <<Log("warning", "Could not fetch content",
                                         run[r].idx)>>])
        ELSE Continue(r, [run |-> [run[r] EXCEPT !.pc = "analyze_code"],
                          calls |-> <<>>, logs |-> <<>>])

\* get_file_content returns the text, or None; lines 249-256.
ContentReturns(r) ==
    /\ run[r].pc = "get_file_content"
    /\ \E file_content \in {"None", "", "text"} :
        IF file_content \in {"None", ""}
        THEN Continue(r, WithLogs(<<Log("warning", "Could not fetch content", run[r].idx)>>,
                                  Resume(run[r], run[r].idx + 1)))
        ELSE Continue(r, [run |-> [run[r] EXCEPT !.pc = "analyze_code"],
                          calls |-> <<>>, logs |-> <<>>])

\* analyze_code returns a result or raises (code_analyzer.py line 145).
AnalysisReturns(r) ==
    /\ run[r].pc = "analyze_code"
    /\ \/ Continue(r, Raise(run[r], "Exception"))
       \/ \E analysis_result \in AnalysisResults :
            Continue(r, AfterAnalysis(run[r], analysis_result))

\* The detailed comment's post returns; the loop goes on.
DetailPostReturns(r) ==
    /\ run[r].pc = "post_detail"
    /\ \E posted \in BOOLEAN :
        Continue(r, Resume(run[r], run[r].idx + 1))

\* The summary's post returns; lines 292-295.
SummaryPostReturns(r) ==
    /\ run[r].pc = "post_summary"
    /\ \E posted \in BOOLEAN :
        Continue(r, [run |-> [run[r] EXCEPT !.pc = "completed"],
                     calls |-> <<>>,
                     logs |-> <<Log("info", "Completed analysis",
                                    Len(run[r].analysis_results))>>])

\* The "Analysis failed" post returns; the task ends.
FailedPostReturns(r) ==
    /\ run[r].pc = "post_failed"
    /\ \E posted \in BOOLEAN :
        Continue(r, [run |-> [run[r] EXCEPT !.pc = "failed"],
                     calls |-> <<>>, logs |-> <<>>])

---------------------------------------------------------------------------
(* Specifications *)

HandlerStep(r) ==
    \/ HandleWebhook(r)
    \/ PrInfoReturns(r)
    \/ FilesReturn(r)
    \/ NoFilesPostReturns(r)

TaskStep(r) ==
    \/ RunStart(r)
    \/ StartedPostReturns(r)
    \/ ContentReturns(r)
    \/ AnalysisReturns(r)
    \/ DetailPostReturns(r)
    \/ SummaryPostReturns(r)
    \/ FailedPostReturns(r)

Next == \E r \in Reqs : HandlerStep(r) \/ TaskStep(r)

Spec == Init /\ [][Next]_vars

\* The event loop resumes every task whose awaited call has returned, and
\* every call returns or raises.
LiveSpec == Spec /\ \A r \in Reqs : WF_vars(HandlerStep(r) \/ TaskStep(r))

---------------------------------------------------------------------------
(* Observations the properties are stated on *)

IsPost(c) == c.op = "post_review_comment"

IsTaskPost(c) == c.by = "task" /\ IsPost(c)

\* The comments the background task of r has posted, in posting order.
TaskPosts(r) == SelectSeq(calls[r], IsTaskPost)

\* The positions in calls[r] of the posted comments of one kind.
PostsOfKind(r, kind) ==
    {i \in 1..Len(calls[r]) : IsPost(calls[r][i]) /\ calls[r][i].body.kind = kind}

LoggedOf(r, msg) == {i \in 1..Len(logged[r]) : logged[r][i].msg = msg}

\* N, the number of changed files of the run.
NFiles(r) == Len(run[r].changed_files)

\* The listed files whose extension is not in the supported set.
UnsupportedFiles(r) ==
    {i \in 1..NFiles(r) :
        ~ShouldAnalyzeFile(run[r].changed_files[i].filename)}

\* The analysed files with at least one finding or a quality score below 70.
FilesWithFindings(r) ==
    {j \in 1..Len(run[r].analysis_results) :
        \/ run[r].analysis_results[j].issues_count > 0
        \/ run[r].analysis_results[j].result.quality < 70}

---------------------------------------------------------------------------
(* Properties of the background run *)

\* C1: within one background run the "Analysis started" comment is posted
\* before any detailed per-file comment, every detailed comment before the
\* summary comment, and the run posts nothing after its summary comment.
C1_CommentOrder ==
    \A r \in Reqs :
        LET p == TaskPosts(r)
        IN  /\ p # <<>> => p[1].body.kind = "started"
            /\ \A i, j \in 1..Len(p) :
                /\ (p[i].body.kind = "started" /\ p[j].body.kind = "detail") => i < j
                /\ (p[i].body.kind = "detail" /\ p[j].body.kind = "summary") => i < j
                /\ p[i].body.kind = "summary" => j <= i

C1_Witness ==
    \E r \in Reqs :
        /\ run[r].pc = "completed"
        /\ Cardinality(PostsOfKind(r, "started")) = 1
        /\ Cardinality(PostsOfKind(r, "detail")) >= 2
        /\ Cardinality(PostsOfKind(r, "summary")) = 1

\* C2: when the background run finishes without an exception, the number of
\* detailed per-file comments it posted equals K, the number of analysed
\* files with at least one finding or a quality score below 70; no detailed
\* comment is ever posted for a file with no finding and a score of 70 or more.
C2_DetailCount ==
    \A r \in Reqs :
        /\ run[r].pc = "completed" =>
                Cardinality(PostsOfKind(r, "detail")) = Cardinality(FilesWithFindings(r))
        /\ \A i \in PostsOfKind(r, "detail") :
                ~(calls[r][i].body.issues = 0 /\ calls[r][i].body.quality >= 70)

C2_Witness ==
    \E r \in Reqs :
        /\ run[r].pc = "completed"
        /\ Len(run[r].analysis_results) = 3
        /\ Cardinality(FilesWithFindings(r)) = 2
        /\ Cardinality(PostsOfKind(r, "detail")) = 2

\* C3 as stated: when the run finishes without an exception exactly one
\* summary comment is posted, and its "Files Analyzed" count is N minus the
\* number of files skipped for their extension.
C3_AsStated ==
    \A r \in Reqs :
        run[r].pc = "completed" =>
            /\ Cardinality(PostsOfKind(r, "summary")) = 1
            /\ \A i \in PostsOfKind(r, "summary") :
                calls[r][i].body.files_analyzed =
                    NFiles(r) - Cardinality(UnsupportedFiles(r))

\* The files of r that were analysed: listed, not skipped for their extension
\* and not skipped because no content came back for them.
AnalysedCount(r) ==
    NFiles(r) - Cardinality(UnsupportedFiles(r))
              - Cardinality(LoggedOf(r, "Could not fetch content"))

\* C3 (amended): when the run finishes without an exception, one summary
\* comment is posted if at least one file was analysed and none otherwise;
\* its "Files Analyzed" count is N minus the files skipped for their
\* extension minus the files whose content could not be fetched.
C3_SummaryCount ==
    \A r \in Reqs :
        run[r].pc = "completed" =>
            /\ Cardinality(PostsOfKind(r, "summary")) =
                    (IF AnalysedCount(r) >= 1 THEN 1 ELSE 0)
            /\ \A i \in PostsOfKind(r, "summary") :
                calls[r][i].body.files_analyzed = AnalysedCount(r)

C3_Witness ==
    \E r \in Reqs :
        /\ run[r].pc = "completed"
        /\ NFiles(r) = 3
        /\ Cardinality(UnsupportedFiles(r)) = 1
        /\ Cardinality(LoggedOf(r, "Could not fetch content")) = 1
        /\ \E i \in PostsOfKind(r, "summary") : calls[r][i].body.files_analyzed = 1

\* C5: once a step of the per-file loop has raised, the run processes no
\* further file, posts exactly one "Analysis failed" comment and no summary
\* comment, repeats no step, and the exception does not leave the task.
C5_Failure ==
    \A r \in Reqs :
        run[r].exc # "None" =>
            /\ run[r].pc \in {"post_failed", "failed"}
            /\ Cardinality(PostsOfKind(r, "failed")) = 1
            /\ Len(calls[r]) \in PostsOfKind(r, "failed")
            /\ PostsOfKind(r, "summary") = {}
            /\ \A i \in 1..Len(calls[r]) : calls[r][i].body.idx <= run[r].idx
            /\ \A i, j \in 1..Len(calls[r]) :
                (/\ i < j
                 /\ calls[r][i].op = calls[r][j].op
                 /\ calls[r][i].body.kind = calls[r][j].body.kind)
                    => calls[r][i].body.idx < calls[r][j].body.idx

C5_Witness ==
    \E r \in Reqs :
        /\ run[r].pc = "failed"
        /\ run[r].exc = "Exception"
        /\ run[r].idx = 2
        /\ NFiles(r) = 3
        /\ Len(run[r].analysis_results) = 1

\* How a run may end: completed, with every listed file visited and no
\* "Analysis failed" comment, or failed, with that comment attempted once.
RunOutcome(r) ==
    /\ run[r].pc \in {"none", "created", "post_started", "get_file_content",
                      "analyze_code", "post_detail", "post_summary",
                      "post_failed", "completed", "failed"}
    /\ run[r].pc = "completed" =>
            /\ \A i \in 1..NFiles(r) :
                \E k \in 1..Len(logged[r]) :
                    /\ logged[r][k].idx = i
                    /\ logged[r][k].msg \in {"Skipping file", "Analyzing file"}
            /\ PostsOfKind(r, "failed") = {}
            /\ run[r].exc = "None"
    /\ run[r].pc = "failed" =>
            /\ Cardinality(PostsOfKind(r, "failed")) = 1
            /\ run[r].exc # "None"

\* C10: every background run that has been created eventually ends, provided
\* every call it awaits returns or raises, and it ends in exactly one of two
\* ways: completed, with every listed file visited, or failed, with the
\* "Analysis failed" comment attempted; no run stops partway through the list.
C10_RunsEnd ==
    /\ \A r \in Reqs : []RunOutcome(r)
    /\ \A r \in Reqs :
            (run[r].pc = "created") ~> (run[r].pc \in {"completed", "failed"})

C10_Witness ==
    \E r \in Reqs :
        /\ run[r].pc = "completed"
        /\ NFiles(r) = 3
        /\ Cardinality(LoggedOf(r, "Could not fetch content")) >= 1
        /\ Cardinality(LoggedOf(r, "Analyzing file")) = 3

---------------------------------------------------------------------------
(* Properties of handle_webhook *)

\* No GitHub request, no comment and no background task for delivery r.
NoSideEffects(r) ==
    /\ calls[r] = <<>>
    /\ hw[r].tasks_created = 0
    /\ run[r] = InitRun

\* The file list of r was fetched and came back empty.
FetchedNoFiles(r) ==
    /\ hw[r].pc \in {"post_no_files", "returned"}
    /\ \E i \in 1..Len(calls[r]) : calls[r][i].op = "fetch_pull_request_files"
    /\ hw[r].changed_files = <<>>

\* C4: when the changed-file list of a qualifying pull request event is
\* empty, exactly one "No analyzable files" comment is posted, it is the last
\* GitHub request, no background task is started and the result is success.
C4_NoFiles ==
    \A r \in Reqs :
        FetchedNoFiles(r) =>
            /\ Cardinality(PostsOfKind(r, "no_files")) = 1
            /\ Len(calls[r]) \in PostsOfKind(r, "no_files")
            /\ \A i \in 1..Len(calls[r]) : calls[r][i].by = "handler"
            /\ hw[r].tasks_created = 0
            /\ run[r] = InitRun
            /\ hw[r].pc = "returned" => hw[r].response.status = "success"

C4_Witness ==
    \E r \in Reqs :
        /\ FetchedNoFiles(r)
        /\ hw[r].pc = "returned"
        /\ hw[r].response = SuccessResponse

\* C6 as stated: an unsupported event type is answered "ignored", with the
\* event type in the message, and has no side effects.
C6_AsStated ==
    \A r \in Reqs :
        (hw[r].pc = "returned"
            /\ hw[r].event_type \notin
                    {"pull_request", "push", "pull_request_review", "check_run"}) =>
            /\ hw[r].response.status = "ignored"
            /\ \E k \in 1..Len(hw[r].response.message) :
                    hw[r].response.message[k] = hw[r].event_type
            /\ NoSideEffects(r)

\* C6 (amended): an unsupported event type whose payload parses is answered
\* "ignored", with the event type in the message; when parsing the payload
\* raises, the answer is "error"; in both cases there are no side effects.
C6_Unsupported ==
    \A r \in Reqs :
        (hw[r].pc = "returned"
            /\ hw[r].event_type \notin
                    {"pull_request", "push", "pull_request_review", "check_run"}) =>
            /\ hw[r].payload.well_formed =>
                    /\ hw[r].response.status = "ignored"
                    /\ \E k \in 1..Len(hw[r].response.message) :
                            hw[r].response.message[k] = hw[r].event_type
            /\ ~hw[r].payload.well_formed => hw[r].response.status = "error"
            /\ NoSideEffects(r)

C6_Witness ==
    \E r \in Reqs :
        /\ hw[r].pc = "returned"
        /\ hw[r].event_type = "issues"
        /\ hw[r].payload.well_formed
        /\ hw[r].response.status = "ignored"

\* A pull_request event with an action outside the four supported ones.
UnsupportedAction(r) ==
    /\ hw[r].pc = "returned"
    /\ hw[r].event_type = "pull_request"
    /\ hw[r].payload.action \notin
            {"opened", "synchronize", "reopened", "ready_for_review"}

\* C7 as stated: a pull_request event with an unsupported action is answered
\* with success and has no side effects.
C7_AsStated ==
    \A r \in Reqs :
        UnsupportedAction(r) =>
            /\ hw[r].response.status = "success"
            /\ NoSideEffects(r)

\* C7 (amended): a pull_request event with an unsupported action has no side
\* effects; it is answered with success when its payload parses and carries a
\* pull request number, and with error otherwise.
C7_UnsupportedAction ==
    \A r \in Reqs :
        UnsupportedAction(r) =>
            /\ hw[r].response.status =
                    (IF hw[r].payload.well_formed /\ hw[r].payload.number # 0
                     THEN "success" ELSE "error")
            /\ NoSideEffects(r)

C7_Witness ==
    \E r \in Reqs :
        /\ UnsupportedAction(r)
        /\ hw[r].payload.action = "closed"
        /\ hw[r].payload.well_formed
        /\ hw[r].payload.number # 0
        /\ hw[r].response = SuccessResponse

\* C8: one handle_webhook invocation creates at most one background task,
\* and only for a pull_request event with a supported action, a pull request
\* number, fetched pull request info and a non-empty changed-file list.
C8_OneTask ==
    \A r \in Reqs :
        /\ hw[r].tasks_created <= 1
        /\ run[r].pc # "none" <=> hw[r].tasks_created = 1
        /\ hw[r].tasks_created = 1 =>
                /\ hw[r].event_type = "pull_request"
                /\ hw[r].payload.action \in
                        {"opened", "synchronize", "reopened", "ready_for_review"}
                /\ hw[r].payload.number # 0
                /\ hw[r].pr_info # "None"
                /\ hw[r].changed_files # <<>>
                /\ run[r].changed_files = hw[r].changed_files

C8_Witness ==
    \E r \in Reqs :
        /\ hw[r].tasks_created = 1
        /\ run[r].pc = "created"
        /\ NFiles(r) = 2

\* C9: the handler does not wait for the background task: whenever the task
\* has run at all (its first comment included), handle_webhook has already
\* returned its success result.
C9_NoWait ==
    \A r \in Reqs :
        (\/ run[r].pc \notin {"none", "created"}
         \/ \E i \in 1..Len(calls[r]) : calls[r][i].by = "task") =>
            /\ hw[r].pc = "returned"
            /\ hw[r].response.status = "success"

C9_Witness ==
    \E r \in Reqs :
        /\ hw[r].pc = "returned"
        /\ hw[r].response.status = "success"
        /\ run[r].pc = "get_file_content"

---------------------------------------------------------------------------
(* Files are processed one at a time *)

IsFileCall(c) == c.by = "task" /\ c.body.idx > 0

\* The requests of the background task of r that are about one file, in the
\* order they were issued: content fetches and detailed comments.
FileCalls(r) == SelectSeq(calls[r], IsFileCall)

\* C11: within one run the files are processed strictly one at a time in list
\* order: every request about file i (its content fetch, then its detailed
\* comment) is issued before any request about a later file, no file is
\* fetched or commented twice, the file being fetched, analysed or commented
\* is the latest one any request is about, and the detailed comments appear
\* in file-list order.
C11_OneFileAtATime ==
    \A r \in Reqs :
        LET f == FileCalls(r)
        IN  /\ \A i, j \in 1..Len(f) :
                    i < j =>
                        \/ f[i].body.idx < f[j].body.idx
                        \/ /\ f[i].body.idx = f[j].body.idx
                           /\ f[i].op = "get_file_content"
                           /\ IsPost(f[j]) /\ f[j].body.kind = "detail"
            /\ \A i \in 1..Len(f) : f[i].body.idx <= run[r].idx
            /\ run[r].pc \in {"get_file_content", "analyze_code", "post_detail"} =>
                    /\ f # <<>>
                    /\ f[Len(f)].body.idx = run[r].idx
                    /\ IsPost(f[Len(f)]) <=> run[r].pc = "post_detail"

C11_Witness ==
    \E r \in Reqs :
        LET f == FileCalls(r)
        IN  /\ run[r].pc = "completed"
            /\ Len(f) >= 5
            /\ \E i, j \in 1..Len(f) :
                    /\ IsPost(f[i]) /\ IsPost(f[j])
                    /\ f[i].body.idx < f[j].body.idx

---------------------------------------------------------------------------
(* Webhook signature verification: api/dependencies.py verify_github_webhook *)
(* and GitHubIntegration.validate_webhook_signature                          *)

\* Longest secret and longest request body of the model, in bytes.
MaxBytes == 1

\* Hex digits of the model's digest (hashlib.sha256 has 64).
DigestHexLen == 1

\* Python values, with the type the code's attribute accesses depend on.
\* Text is a sequence of one-character strings.
PyNone == [type |-> "NoneType", value |-> <<>>]

PyStr(text) == [type |-> "str", value |-> text]

PyBytes(text) == [type |-> "bytes", value |-> text]

\* pydantic.SecretStr: wraps a str; it has __len__ and get_secret_value() and
\* none of the str methods.
SecretStr(text) == [type |-> "SecretStr", value |-> text]

\* bool(v): None is false, a number is true when it is not 0, the others
\* are true when their length is not 0.
Truthy(v) ==
    CASE v.type = "NoneType" -> FALSE
      [] v.type = "int" -> v.value # 0
      [] OTHER -> Len(v.value) > 0

\* The byte strings of the model, over two bytes.
Texts == SeqsUpTo({"a", "b"}, MaxBytes)

\* A byte string as a number, different for different strings.
RECURSIVE CodeOf(_)
CodeOf(text) ==
    IF text = <<>> THEN 0
    ELSE CodeOf(SubSeq(text, 1, Len(text) - 1)) * 3
            + (IF text[Len(text)] = "a" THEN 1 ELSE 2)

\* n in lower-case hex, width digits wide.
RECURSIVE ToHex(_, _)
ToHex(n, width) ==
    LET HexDigits == <<"0", "1", "2", "3", "4", "5", "6", "7",
                       "8", "9", "a", "b", "c", "d", "e", "f">>
    IN  IF width = 0 THEN <<>>
        ELSE ToHex(n \div 16, width - 1) \o <<HexDigits[(n % 16) + 1]>>

\* A digest that mixes only the message: the key is left out.
HmacHexDigest_Unkeyed(key, msg) ==
    ToHex((CodeOf(msg) * 7 + 3) % (16 ^ DigestHexLen), DigestHexLen)

\* hmac.new(key, msg, hashlib.sha256).hexdigest(): a keyed digest in lower-case
\* hex of fixed length. The model's digest is DigestHexLen digits wide and, as
\* SHA-256 is taken to be on real inputs, free of collisions on the inputs of
\* the model: (key, msg) is numbered and the number is permuted.
HmacHexDigest(key, msg) ==
    ToHex(((CodeOf(key) * (3 ^ MaxBytes) + CodeOf(msg)) * 7 + 3)
              % (16 ^ DigestHexLen),
          DigestHexLen)

Sha256Prefix == <<"s", "h", "a", "2", "5", "6", "=">>

\* str.startswith
StartsWith(text, prefix) ==
    Len(text) >= Len(prefix) /\ SubSeq(text, 1, Len(prefix)) = prefix

\* hmac.compare_digest(a, b) of two str: TypeError when one of them has a
\* non-ASCII character, else whether they are equal.
CompareDigest(a, b) ==
    IF \A text \in {a, b} : \A i \in 1..Len(text) : text[i] # "é"
    THEN [raised |-> FALSE, value |-> a = b]
    ELSE [raised |-> TRUE, value |-> FALSE]

\* Line 361 written `if secret is None:`.
ValidateWebhookSignature_NoneOnly(payload, signature, secret) ==
    IF secret.type = "NoneType" THEN TRUE
    ELSE IF secret.type # "str" THEN FALSE
    ELSE IF payload.type # "bytes" THEN FALSE
    ELSE IF signature.type # "str" THEN FALSE
    ELSE LET expected_signature == HmacHexDigest(secret.value, payload.value)
             stripped == IF StartsWith(signature.value, Sha256Prefix)
                         THEN SubSeq(signature.value, 8, Len(signature.value))
                         ELSE signature.value
             compared == CompareDigest(expected_signature, stripped)
         IN  IF compared.raised THEN FALSE ELSE compared.value

\* validate_webhook_signature, lines 361-380. Inside the try, an exception is
\* raised by secret.encode when secret is not a str, by hmac.new when payload
\* is not bytes, by signature.startswith when signature is not a str, and by
\* compare_digest; the except clause returns False for each.
ValidateWebhookSignature(payload, signature, secret) ==
    IF ~Truthy(secret) THEN TRUE
    ELSE IF secret.type # "str" THEN FALSE
    ELSE IF payload.type # "bytes" THEN FALSE
    ELSE IF signature.type # "str" THEN FALSE
    ELSE LET expected_signature == HmacHexDigest(secret.value, payload.value)
             stripped == IF StartsWith(signature.value, Sha256Prefix)
                         THEN SubSeq(signature.value, 8, Len(signature.value))
                         ELSE signature.value
             compared == CompareDigest(expected_signature, stripped)
         IN  IF compared.raised THEN FALSE ELSE compared.value

\* What GitHub sends in X-Hub-Signature-256 for a body and a secret.
ValidSignature(body, secret) == Sha256Prefix \o HmacHexDigest(secret, body)

\* The texts that differ from text in exactly one position, where they have
\* "0" or a character that is not ASCII.
OneByteChanges(text) ==
    {[text EXCEPT ![i] = c] : i \in 1..Len(text), c \in {"0", "é"}} \ {text}

\* The signatures of the model: the valid ones of every body and secret, each
\* with one byte changed, each without its prefix, and the empty one.
SignatureTexts ==
    LET valid == {ValidSignature(b, s) : b \in Texts, s \in Texts \ {<<>>}}
    IN  valid
        \cup UNION {OneByteChanges(v) : v \in valid}
        \cup {HmacHexDigest(s, b) : b \in Texts, s \in Texts \ {<<>>}}
        \cup {<<>>}

\* request.headers.get("X-Hub-Signature-256"): the header, or None.
Signatures == {PyNone} \cup {PyStr(t) : t \in SignatureTexts}

\* Calls of verify_github_webhook; Settings.github_webhook_secret is an
\* Optional[SecretStr], config.py line 52.
VerifyCalls ==
    [fn : {"verify_github_webhook"}, pc : {"called"},
     github_webhook_secret : {PyNone} \cup {SecretStr(t) : t \in Texts},
     signature : Signatures,
     body : {PyBytes(t) : t \in Texts}]

\* Direct calls of validate_webhook_signature, as the tests make them.
ValidateCalls ==
    [fn : {"validate_webhook_signature"}, pc : {"called"},
     payload : {PyBytes(t) : t \in Texts} \cup {PyStr(<<"a">>)},
     signature : Signatures,
     secret : {PyNone} \cup {PyStr(t) : t \in Texts} \cup {SecretStr(t) : t \in Texts}]

VerifyInit ==
    /\ NoDelivery
    /\ call \in VerifyCalls \cup ValidateCalls
    /\ http = <<>>
    /\ ret = NoReturn

Returned(value) == [kind |-> "return", value |-> value]

HTTPException(status_code, detail) ==
    [kind |-> "raise", exc |-> "HTTPException",
     status_code |-> status_code, detail |-> detail]

\* The call ends with outcome.
Ends(outcome) ==
    /\ call' = [call EXCEPT !.pc = "done"]
    /\ ret' = outcome

\* verify_github_webhook up to `await request.body()`, lines 72-85.
VerifyGithubWebhook ==
    /\ call.fn = "verify_github_webhook"
    /\ call.pc = "called"
    /\ IF ~Truthy(call.github_webhook_secret)
       THEN Ends(Returned(TRUE))
       ELSE IF ~Truthy(call.signature)
       THEN Ends(HTTPException(401, "Missing webhook signature"))
       ELSE /\ call' = [call EXCEPT !.pc = "request.body"]
            /\ UNCHANGED ret
    /\ UNCHANGED <<hw, run, calls, logged, http>>

\* The body has been read; lines 87-100.
RequestBodyReturns ==
    /\ call.fn = "verify_github_webhook"
    /\ call.pc = "request.body"
    /\ LET is_valid == ValidateWebhookSignature(call.body, call.signature,
                                                call.github_webhook_secret)
       IN  IF ~is_valid
           THEN Ends(HTTPException(401, "Invalid webhook signature"))
           ELSE Ends(Returned(TRUE))
    /\ UNCHANGED <<hw, run, calls, logged, http>>

\* A call of validate_webhook_signature returns.
ValidateWebhookSignatureCall ==
    /\ call.fn = "validate_webhook_signature"
    /\ call.pc = "called"
    /\ Ends(Returned(ValidateWebhookSignature(call.payload, call.signature,
                                              call.secret)))
    /\ UNCHANGED <<hw, run, calls, logged, http>>

VerifyNext ==
    \/ VerifyGithubWebhook
    \/ RequestBodyReturns
    \/ ValidateWebhookSignatureCall

VerifySpec == VerifyInit /\ [][VerifyNext]_vars

Unauthorized == ret.kind = "raise" /\ ret.status_code = 401

VerifyDone == call.fn = "verify_github_webhook" /\ call.pc = "done"

ValidateDone == call.fn = "validate_webhook_signature" /\ call.pc = "done"

\* C12: with a webhook secret configured, verify_github_webhook admits a
\* request exactly when its X-Hub-Signature-256 header validates against the
\* raw body and the secret; a missing or invalid signature is rejected with
\* HTTP 401.
C12_AsStated ==
    (VerifyDone /\ Truthy(call.github_webhook_secret)) =>
        LET validates ==
                /\ Truthy(call.signature)
                /\ ValidateWebhookSignature(
                        call.body, call.signature,
                        PyStr(call.github_webhook_secret.value))
        IN  /\ ret = Returned(TRUE) <=> validates
            /\ ~validates => Unauthorized

\* C13: with a non-empty secret, validate_webhook_signature returns true for
\* "sha256=" followed by the HMAC-SHA256 hex digest of the payload under the
\* secret, false for the valid signature of any other payload or any other
\* secret and for the valid signature with any one byte changed; it returns a
\* boolean for every input and never raises.
C13_SignatureCheck ==
    ValidateDone =>
        /\ ret.kind = "return"
        /\ ret.value \in BOOLEAN
        /\ (call.secret.type = "str" /\ call.secret.value # <<>>
                /\ call.payload.type = "bytes" /\ call.signature.type = "str") =>
            LET sig == call.signature.value
                payload == call.payload.value
                secret == call.secret.value
            IN  /\ sig = ValidSignature(payload, secret) => ret.value = TRUE
                /\ \A p \in Texts, s \in Texts \ {<<>>} :
                        (sig = ValidSignature(p, s) /\ (p # payload \/ s # secret))
                            => ret.value = FALSE
                /\ sig \in OneByteChanges(ValidSignature(payload, secret))
                        => ret.value = FALSE

C13_Witness ==
    /\ ValidateDone
    /\ call.secret.type = "str"
    /\ Len(call.secret.value) = MaxBytes
    /\ call.payload.type = "bytes"
    /\ Len(call.payload.value) = MaxBytes
    /\ call.signature = PyStr(ValidSignature(call.payload.value, call.secret.value))
    /\ ret = Returned(TRUE)

\* C14: when no webhook secret is configured (None or empty),
\* validate_webhook_signature returns true whatever the signature, and
\* verify_github_webhook returns true even when the header is absent.
C14_NoSecret ==
    /\ (ValidateDone /\ ~Truthy(call.secret)) => ret = Returned(TRUE)
    /\ (VerifyDone /\ ~Truthy(call.github_webhook_secret)) => ret = Returned(TRUE)

C14_Witness ==
    /\ VerifyDone
    /\ call.github_webhook_secret = PyNone
    /\ call.signature = PyNone
    /\ ret = Returned(TRUE)

---------------------------------------------------------------------------
(* GitHubIntegration: fetch_pull_request_files, get_file_content and        *)
(* post_review_comment, each from its call to its return                    *)

PyInt(n) == [type |-> "int", value |-> n]

\* What `async with session.get(...) as response` or session.post gives: a
\* response with a status, or an exception raised by the transport.
NoReply == [status |-> 0, raised |-> "None"]

Replies ==
    {[status |-> s, raised |-> "None"] : s \in {200, 201, 204, 302, 404, 500}}
    \cup {[status |-> 0, raised |-> e] :
            e \in {"TimeoutError", "ClientConnectionError"}}

\* What `await response.json()` gives for the files of a pull request: a list,
\* or an exception when the body is not JSON.
FilesJson ==
    {[raised |-> "None", data |-> files] : files \in SeqsUpTo(FileInfos, 1)}
    \cup {[raised |-> "JSONDecodeError", data |-> <<>>]}

\* What `await response.json()` gives for a file: an object with or without
\* "encoding" and "content", something that is not an object (a directory
\* listing), or an exception.
FileJson ==
    {[raised |-> "None", type |-> "dict", keys |-> {"encoding", "content"},
      encoding |-> e, content |-> c] :
        e \in {"base64", "none", "utf-8"}, c \in {"aGk=", "", "/w==", "a"}}
    \cup {[raised |-> "None", type |-> "dict", keys |-> {"content"},
           encoding |-> "", content |-> "aGk="],
          [raised |-> "None", type |-> "dict", keys |-> {"encoding"},
           encoding |-> "base64", content |-> ""],
          [raised |-> "None", type |-> "list", keys |-> {},
           encoding |-> "", content |-> ""],
          [raised |-> "JSONDecodeError", type |-> "", keys |-> {},
           encoding |-> "", content |-> ""]}

\* base64.b64decode(content).decode('utf-8') on the contents of the model:
\* "aGk=" is "hi", "/w==" is the byte 0xff, which is not UTF-8, and "a" has
\* one character more than a multiple of four.
B64DecodeUtf8(content) ==
    CASE content = "aGk=" -> [raised |-> "None", value |-> <<"h", "i">>]
      [] content = "" -> [raised |-> "None", value |-> <<>>]
      [] content = "/w==" -> [raised |-> "UnicodeDecodeError", value |-> <<>>]
      [] OTHER -> [raised |-> "binascii.Error", value |-> <<>>]

\* One of the three functions is called.
ClientInit ==
    /\ NoDelivery
    /\ call \in
        [fn : {"fetch_pull_request_files"}, pc : {"called"},
         pr_number : PrNumbers, response : {NoReply}, json : {NoReply}]
        \cup [fn : {"get_file_content"}, pc : {"called"},
              file_path : {<<"src/main", "py">>}, ref : {"main", "abc123"},
              response : {NoReply}, json : {NoReply}]
        \cup [fn : {"post_review_comment"}, pc : {"called"},
              pr_number : PrNumbers,
              file_path : {PyNone, PyStr(<<>>), PyStr(<<"src/main", "py">>)},
              line_number : {PyNone, PyInt(0), PyInt(10)},
              response : {NoReply}]
    /\ http = <<>>
    /\ ret = NoReturn

\* The request is sent and the coroutine waits for the response.
Sends(method, url) ==
    /\ call.pc = "called"
    /\ call' = [call EXCEPT !.pc = "request"]
    /\ http' = Append(http, [method |-> method, url |-> url])
    /\ UNCHANGED <<hw, run, calls, logged, ret>>

\* fetch_pull_request_files, lines 71-75.
FetchPullRequestFiles ==
    /\ call.fn = "fetch_pull_request_files"
    /\ Sends("GET", <<"pulls", call.pr_number, "files">>)

\* The response or the transport's exception arrives: lines 75-86, up to
\* `await response.json()` or the return.
FetchResponse ==
    /\ call.fn = "fetch_pull_request_files"
    /\ call.pc = "request"
    /\ \E reply \in Replies :
        LET c == [call EXCEPT !.response = reply]
        IN  IF reply.status = 200
            THEN call' = [c EXCEPT !.pc = "response.json"] /\ UNCHANGED ret
            ELSE call' = [c EXCEPT !.pc = "done"] /\ ret' = Returned(<<>>)
    /\ UNCHANGED <<hw, run, calls, logged, http>>

\* response.json() returns or raises: lines 77-79, 84-86.
FetchJson ==
    /\ call.fn = "fetch_pull_request_files"
    /\ call.pc = "response.json"
    /\ \E files_data \in FilesJson :
        /\ call' = [call EXCEPT !.json = files_data, !.pc = "done"]
        /\ ret' = IF files_data.raised # "None" THEN Returned(<<>>)
                  ELSE Returned(files_data.data)
    /\ UNCHANGED <<hw, run, calls, logged, http>>

\* get_file_content, lines 103-108.
GetFileContent ==
    /\ call.fn = "get_file_content"
    /\ Sends("GET", <<"contents", call.file_path, call.ref>>)

\* Lines 108-126, up to `await response.json()` or the return.
GetFileContentResponse ==
    /\ call.fn = "get_file_content"
    /\ call.pc = "request"
    /\ \E reply \in Replies :
        LET c == [call EXCEPT !.response = reply]
        IN  IF reply.status = 200
            THEN call' = [c EXCEPT !.pc = "response.json"] /\ UNCHANGED ret
            ELSE call' = [c EXCEPT !.pc = "done"] /\ ret' = Returned(PyNone)
    /\ UNCHANGED <<hw, run, calls, logged, http>>

\* Lines 113-119 without the test of "encoding".
GetFileContentJson_AnyEncoding ==
    /\ call.fn = "get_file_content"
    /\ call.pc = "response.json"
    /\ \E file_data \in FileJson :
        LET content == B64DecodeUtf8(file_data.content)
        IN  /\ call' = [call EXCEPT !.json = file_data, !.pc = "done"]
            /\ ret' = IF file_data.raised # "None" \/ file_data.type # "dict"
                      THEN Returned(PyNone)
                      ELSE IF "content" \notin file_data.keys \/ content.raised # "None"
                      THEN Returned(PyNone)
                      ELSE Returned(PyStr(content.value))
    /\ UNCHANGED <<hw, run, calls, logged, http>>

\* response.json() returns or raises: lines 110-126. file_data.get raises
\* when file_data is not an object and returns None when "encoding" is
\* missing; file_data["content"] raises when "content" is missing.
GetFileContentJson ==
    /\ call.fn = "get_file_content"
    /\ call.pc = "response.json"
    /\ \E file_data \in FileJson :
        LET content == B64DecodeUtf8(file_data.content)
        IN  /\ call' = [call EXCEPT !.json = file_data, !.pc = "done"]
            /\ ret' = IF file_data.raised # "None" \/ file_data.type # "dict"
                      THEN Returned(PyNone)
                      ELSE IF "encoding" \notin file_data.keys
                                \/ file_data.encoding # "base64"
                      THEN Returned(PyNone)
                      ELSE IF "content" \notin file_data.keys \/ content.raised # "None"
                      THEN Returned(PyNone)
                      ELSE Returned(PyStr(content.value))
    /\ UNCHANGED <<hw, run, calls, logged, http>>

\* post_review_comment, lines 146-165: the URL is chosen and the POST sent.
PostReviewComment ==
    /\ call.fn = "post_review_comment"
    /\ Sends("POST",
             IF Truthy(call.file_path) /\ Truthy(call.line_number)
             THEN <<"pulls", call.pr_number, "reviews">>
             ELSE <<"issues", call.pr_number, "comments">>)

\* Line 166 written `if response.status == 200:`.
PostResponse_200Only ==
    /\ call.fn = "post_review_comment"
    /\ call.pc = "request"
    /\ \E reply \in Replies :
        /\ call' = [call EXCEPT !.response = reply, !.pc = "done"]
        /\ ret' = Returned(reply.raised = "None" /\ reply.status = 200)
    /\ UNCHANGED <<hw, run, calls, logged, http>>

\* The response or the transport's exception arrives: lines 165-175.
PostResponse ==
    /\ call.fn = "post_review_comment"
    /\ call.pc = "request"
    /\ \E reply \in Replies :
        /\ call' = [call EXCEPT !.response = reply, !.pc = "done"]
        /\ ret' = Returned(reply.raised = "None" /\ reply.status \in {200, 201})
    /\ UNCHANGED <<hw, run, calls, logged, http>>

ClientNext ==
    \/ FetchPullRequestFiles
    \/ FetchResponse
    \/ FetchJson
    \/ GetFileContent
    \/ GetFileContentResponse
    \/ GetFileContentJson
    \/ PostReviewComment
    \/ PostResponse

ClientSpec == ClientInit /\ [][ClientNext]_vars

ClientDone(fn) == call.fn = fn /\ call.pc = "done"

\* The call got no usable answer: an exception from the transport, a status
\* outside 200..299, or a body that is not JSON.
NoAnswer ==
    \/ call.response.raised # "None"
    \/ call.response.status \notin 200..299
    \/ (call.json # NoReply /\ call.json.raised # "None")

\* C15: fetch_pull_request_files returns [] and get_file_content returns None
\* on any non-2xx response and on any transport exception (timeout,
\* connection error, malformed JSON), get_file_content returns None for any
\* encoding other than base64, and neither propagates an exception.
C15_Sentinels ==
    /\ ClientDone("fetch_pull_request_files") =>
            /\ ret.kind = "return"
            /\ NoAnswer => ret.value = <<>>
    /\ ClientDone("get_file_content") =>
            /\ ret.kind = "return"
            /\ NoAnswer => ret.value = PyNone
            /\ (call.json # NoReply /\ call.json.raised = "None"
                    /\ call.json.type = "dict" /\ call.json.encoding # "base64")
                => ret.value = PyNone

C15_Witness ==
    /\ ClientDone("get_file_content")
    /\ call.response.status = 200
    /\ call.json # NoReply
    /\ call.json.raised = "None"
    /\ call.json.encoding = "utf-8"
    /\ call.json.content = "aGk="
    /\ ret = Returned(PyNone)

\* C16 as stated: the review endpoint is used when both file_path and
\* line_number are given, that is, are not None.
C16_AsStated ==
    ClientDone("post_review_comment") =>
        /\ Len(http) = 1
        /\ http[1].method = "POST"
        /\ http[1].url =
                IF call.file_path # PyNone /\ call.line_number # PyNone
                THEN <<"pulls", call.pr_number, "reviews">>
                ELSE <<"issues", call.pr_number, "comments">>
        /\ ret.kind = "return"
        /\ ret.value = TRUE <=> call.response.status \in {200, 201}

\* C16: post_review_comment issues exactly one HTTP POST: to
\* pulls/{n}/reviews when file_path is a non-empty string and line_number a
\* non-zero number, to issues/{n}/comments otherwise (also for an empty path
\* or line 0); it returns true exactly when the response status is 200 or
\* 201, false on any other status or exception.
C16_OnePost ==
    /\ call.fn = "post_review_comment" => Len(http) <= 1
    /\ ClientDone("post_review_comment") =>
        /\ Len(http) = 1
        /\ http[1].method = "POST"
        /\ http[1].url =
                IF /\ call.file_path.type = "str" /\ call.file_path.value # <<>>
                   /\ call.line_number.type = "int" /\ call.line_number.value # 0
                THEN <<"pulls", call.pr_number, "reviews">>
                ELSE <<"issues", call.pr_number, "comments">>
        /\ ret.kind = "return"
        /\ ret.value \in BOOLEAN
        /\ ret.value = TRUE <=> call.response.status \in {200, 201}

C16_Witness ==
    /\ ClientDone("post_review_comment")
    /\ http = <<[method |-> "POST", url |-> <<"pulls", 42, "reviews">>]>>
    /\ call.response.status = 201
    /\ ret = Returned(TRUE)

---------------------------------------------------------------------------
(* CodeAnalyzer.analyze_code and its five sub-analyses                      *)

\* code_content.split('\n') as the number of lines of each kind; the code
\* only counts lines and asks whether some line has a property, so the order
\* of the lines is left out. The kinds, with a line of each:
\*   blank ''              comment '# TODO: tidy up'      def 'def f(x):'
\*   plain 'x = 1'         inline  'x = compute(...)  # why', over 120 long
\* For each kind, the tests of the code that a line of the kind passes:
\* "strip" is line.strip() not being empty, "starts#" is
\* line.strip().startswith('#'), "#", "def " and "TODO" are the substring
\* being in the line, "long" is len(line) > 120.
LineTests ==
    [blank |-> {},
     comment |-> {"strip", "starts#", "#", "TODO"},
     def |-> {"strip", "def "},
     plain |-> {"strip"},
     inline |-> {"strip", "#", "long"}]

LineKinds == DOMAIN LineTests

\* The contents of the model: 0 to 201 plain lines, alone, with a function, a
\* comment and a blank line, or with one long line that ends in a comment.
\* split never gives an empty list: the empty content is one blank line.
CodeContents ==
    {[kind \in LineKinds |->
        CASE kind = "plain" -> plain
          [] kind = "inline" -> IF decor = "inline" THEN 1 ELSE 0
          [] kind = "blank" -> IF decor = "documented" \/ (plain = 0 /\ decor = "bare")
                               THEN 1 ELSE 0
          [] OTHER -> IF decor = "documented" THEN 1 ELSE 0] :
        plain \in {0, 99, 100, 200, 201},
        decor \in {"bare", "documented", "inline"}}

RECURSIVE SumOver(_, _)
SumOver(lines, kinds) ==
    IF kinds = {} THEN 0
    ELSE LET kind == CHOOSE k \in kinds : TRUE
         IN  lines[kind] + SumOver(lines, kinds \ {kind})

\* len(lines)
TotalLines(lines) == SumOver(lines, LineKinds)

\* What a call of a model of the inference provider gives: an answer, or an
\* exception (from the call, or from reading an answer of another shape).
\* Scores are in hundredths: score * 100.
ProviderFailure == [raised |-> TRUE, label |-> "", score |-> 0]

SecurityAnswers ==
    {ProviderFailure}
    \cup {[raised |-> FALSE, label |-> "NEGATIVE", score |-> 95],
          [raised |-> FALSE, label |-> "POSITIVE", score |-> 90],
          [raised |-> FALSE, label |-> "POSITIVE", score |-> 95]}

QualityAnswers ==
    {ProviderFailure}
    \cup {[raised |-> FALSE, label |-> "LABEL_1", score |-> s] :
            s \in {0, 45, 75, 85, 100}}

GeneratorAnswers ==
    {ProviderFailure, [raised |-> FALSE, label |-> "generated_text", score |-> 0]}

security_patterns ==
    <<"SQL injection vulnerabilities", "Cross-site scripting (XSS) risks",
      "Authentication bypasses", "Data exposure risks">>

\* _analyze_security on the answers to its four calls, lines 153-182.
RECURSIVE AnalyzeSecurity(_)
AnalyzeSecurity(answers) ==
    IF answers = <<>> THEN <<>>
    ELSE LET n == Len(answers)
             result == answers[n]
             security_issues == AnalyzeSecurity(SubSeq(answers, 1, n - 1))
         IN  IF ~result.raised /\ result.label = "POSITIVE" /\ result.score > 70
             THEN Append(security_issues,
                         [type |-> security_patterns[n],
                          severity |-> IF result.score > 90 THEN "HIGH" ELSE "MEDIUM"])
             ELSE security_issues

\* any(... for line in lines): some line of the content passes the test.
AnyLine(lines, test) ==
    \E kind \in LineKinds : lines[kind] > 0 /\ test \in LineTests[kind]

\* Lines 197-210 without the cap of line 210.
AnalyzeQuality_Uncapped(lines, quality_result) ==
    IF quality_result.raised THEN 50
    ELSE quality_result.score
            + (IF AnyLine(lines, "def ") THEN 5 ELSE 0)
            + (IF AnyLine(lines, "#") THEN 5 ELSE 0)
            + (IF TotalLines(lines) < 100 THEN 5 ELSE 0)

\* _analyze_quality, lines 190-214.
AnalyzeQuality(lines, quality_result) ==
    IF quality_result.raised THEN 50
    ELSE LET base_score ==
                quality_result.score
                    + (IF AnyLine(lines, "def ") THEN 5 ELSE 0)
                    + (IF AnyLine(lines, "#") THEN 5 ELSE 0)
                    + (IF TotalLines(lines) < 100 THEN 5 ELSE 0)
         IN  IF base_score < 100 THEN base_score ELSE 100

\* _generate_documentation, lines 222-242.
GenerateDocumentation(doc_result, file_path) ==
    IF doc_result.raised
    THEN <<"Documentation could not be generated automatically.">>
    ELSE IF file_path # "" THEN <<"File: ", file_path, doc_result.label>>
    ELSE <<doc_result.label>>

\* Line 256 counting the lines that have a '#' anywhere.
CommentLines_Anywhere(lines) ==
    SumOver(lines, {k \in LineKinds : "#" \in LineTests[k]})

\* Line 256.
CommentLines(lines) ==
    SumOver(lines, {k \in LineKinds : "starts#" \in LineTests[k]})

\* Line 255.
CodeLines(lines) ==
    SumOver(lines, {k \in LineKinds :
                        "strip" \in LineTests[k] /\ "starts#" \notin LineTests[k]})

\* _analyze_complexity, lines 250-268.
AnalyzeComplexity(lines) ==
    LET code_lines == CodeLines(lines)
    IN  [total_lines |-> TotalLines(lines),
         code_lines |-> code_lines,
         comment_lines |-> CommentLines(lines),
         complexity_rating |->
            IF code_lines > 200 THEN "HIGH"
            ELSE IF code_lines > 100 THEN "MEDIUM"
            ELSE "LOW"]

\* The rule-based suggestions, lines 276-288.
HeuristicSuggestions(lines) ==
    (IF ~AnyLine(lines, "#")
     THEN <<"Consider adding comments to explain complex logic">> ELSE <<>>)
    \o (IF AnyLine(lines, "long")
        THEN <<"Some lines are very long - consider breaking them up for readability">>
        ELSE <<>>)
    \o (IF AnyLine(lines, "TODO")
        THEN <<"There are TODO/FIXME comments that should be addressed">>
        ELSE <<>>)

\* _generate_suggestions, lines 276-302.
GenerateSuggestions(lines, ai_suggestions) ==
    LET suggestions ==
            HeuristicSuggestions(lines)
                \o (IF ai_suggestions.raised THEN <<>> ELSE <<"AI Suggestion: ">>)
    IN  IF suggestions # <<>> THEN suggestions
        ELSE <<"Code looks good! No major issues found.">>

\* Lines 316-317 counting the MEDIUM findings as well.
HighSeverityIssues_AnySeverity(security_issues) ==
    Len(security_issues)

\* Line 316.
HighSeverityIssues(security_issues) ==
    Len(SelectSeq(security_issues, LAMBDA issue : issue.severity = "HIGH"))

\* _calculate_overall_rating, lines 310-335.
CalculateOverallRating(analysis_results) ==
    LET security_issues == analysis_results[1]
        quality_score == analysis_results[2]
        complexity_analysis == analysis_results[4]
        total_score ==
            quality_score
                - HighSeverityIssues(security_issues) * 20
                - (IF complexity_analysis.complexity_rating = "HIGH" THEN 15
                   ELSE IF complexity_analysis.complexity_rating = "MEDIUM" THEN 5
                   ELSE 0)
    IN  IF total_score >= 90 THEN "A - Excellent"
        ELSE IF total_score >= 80 THEN "B - Good"
        ELSE IF total_score >= 70 THEN "C - Average"
        ELSE IF total_score >= 60 THEN "D - Needs Improvement"
        ELSE "F - Major Issues Found"

\* analyze_code is called with a content and the path of its file.
AnalyzerInit ==
    /\ NoDelivery
    /\ call \in [fn : {"analyze_code"}, pc : {"called"},
                 code_content : CodeContents, file_path : {"src/main.py"},
                 results : {<<>>}]
    /\ http = <<>>
    /\ ret = NoReturn

\* analyze_code up to `await asyncio.gather(*analysis_tasks)`, lines 115-128:
\* the five coroutines become tasks, which the event loop runs in this order.
AnalyzeCode ==
    /\ call.fn = "analyze_code"
    /\ call.pc = "called"
    /\ call' = [call EXCEPT !.pc = "gather"]
    /\ UNCHANGED <<hw, run, calls, logged, http, ret>>

\* The task with position nth in analysis_tasks is the next one to run.
Runs(nth) ==
    /\ call.fn = "analyze_code"
    /\ call.pc = "gather"
    /\ Len(call.results) = nth - 1

\* A sub-analysis has run to its end: it made the calls asked of the provider
\* and its task holds result.
Ran(asked, result) ==
    /\ call' = [call EXCEPT !.results = Append(@, result)]
    /\ http' = http \o asked
    /\ UNCHANGED <<hw, run, calls, logged, ret>>

AnalyzeSecurityRuns ==
    /\ Runs(1)
    /\ \E answers \in [1..Len(security_patterns) -> SecurityAnswers] :
        Ran([i \in 1..Len(security_patterns) |->
                [model |-> "security_classifier", answer |-> answers[i]]],
            AnalyzeSecurity(answers))

AnalyzeQualityRuns ==
    /\ Runs(2)
    /\ \E quality_result \in QualityAnswers :
        Ran(<<[model |-> "classifier", answer |-> quality_result]>>,
            AnalyzeQuality(call.code_content, quality_result))

\* _generate_documentation without its try: the exception leaves the task,
\* gather passes it on and analyze_code re-raises it at line 145.
GenerateDocumentationRuns_NoTry ==
    /\ Runs(3)
    /\ \E doc_result \in GeneratorAnswers :
        IF doc_result.raised
        THEN /\ call' = [call EXCEPT !.pc = "done"]
             /\ http' = Append(http, [model |-> "generator", answer |-> doc_result])
             /\ ret' = [kind |-> "raise", exc |-> "Exception"]
             /\ UNCHANGED <<hw, run, calls, logged>>
        ELSE Ran(<<[model |-> "generator", answer |-> doc_result]>>,
                 GenerateDocumentation(doc_result, call.file_path))

GenerateDocumentationRuns ==
    /\ Runs(3)
    /\ \E doc_result \in GeneratorAnswers :
        Ran(<<[model |-> "generator", answer |-> doc_result]>>,
            GenerateDocumentation(doc_result, call.file_path))

AnalyzeComplexityRuns ==
    /\ Runs(4)
    /\ Ran(<<>>, AnalyzeComplexity(call.code_content))

GenerateSuggestionsRuns ==
    /\ Runs(5)
    /\ \E ai_suggestions \in GeneratorAnswers :
        Ran(<<[model |-> "generator", answer |-> ai_suggestions]>>,
            GenerateSuggestions(call.code_content, ai_suggestions))

\* The dataclass of lines 20-33, built at lines 131-138.
CodeAnalysisResult(results) ==
    [security_issues |-> results[1],
     quality_score |-> results[2],
     documentation |-> results[3],
     complexity_analysis |-> results[4],
     suggestions |-> results[5],
     overall_rating |-> CalculateOverallRating(results)]

\* gather returns the five results; lines 130-141.
GatherReturns ==
    /\ Runs(6)
    /\ call' = [call EXCEPT !.pc = "done"]
    /\ ret' = Returned(CodeAnalysisResult(call.results))
    /\ UNCHANGED <<hw, run, calls, logged, http>>

AnalyzerNext ==
    \/ AnalyzeCode
    \/ AnalyzeSecurityRuns
    \/ AnalyzeQualityRuns
    \/ GenerateDocumentationRuns
    \/ AnalyzeComplexityRuns
    \/ GenerateSuggestionsRuns
    \/ GatherReturns

AnalyzerSpec == AnalyzerInit /\ [][AnalyzerNext]_vars

AnalyzeDone == call.fn = "analyze_code" /\ call.pc = "done"

\* The provider call with position nth among the calls of one analysis (four
\* of the security classifier, one of the classifier, two of the generator)
\* raised.
Failed(nth) == http[nth].answer.raised

\* C17: analyze_code returns a result whichever of its calls of the inference
\* provider raise: it never raises and never stops before it returns; a
\* failing call leaves the neutral default (no finding for that security
\* pattern, quality 50, the placeholder documentation, the rule-based
\* suggestions only), and the overall rating is computed only after all five
\* sub-analyses have ended.
C17_AlwaysReturns ==
    call.fn = "analyze_code" =>
        /\ ret.kind \in {"none", "return"}
        /\ ~AnalyzeDone => (ret.kind = "none" /\ ENABLED AnalyzerNext)
        /\ AnalyzeDone =>
            /\ ret.kind = "return"
            /\ Len(call.results) = 5
            /\ Len(http) = 7
            /\ \A i \in 1..4 :
                Failed(i) =>
                    \A j \in 1..Len(ret.value.security_issues) :
                        ret.value.security_issues[j].type # security_patterns[i]
            /\ Failed(5) => ret.value.quality_score = 50
            /\ Failed(6) => ret.value.documentation =
                    <<"Documentation could not be generated automatically.">>
            /\ Failed(7) =>
                    \/ ret.value.suggestions = HeuristicSuggestions(call.code_content)
                    \/ /\ HeuristicSuggestions(call.code_content) = <<>>
                       /\ ret.value.suggestions =
                            <<"Code looks good! No major issues found.">>

C17_Witness ==
    /\ AnalyzeDone
    /\ \A i \in 1..7 : Failed(i)
    /\ ret.kind = "return"
    /\ ret.value.security_issues = <<>>
    /\ ret.value.quality_score = 50

\* C18: the quality score is always between 0 and 100: the provider's score
\* times 100, plus 5 for a function definition, 5 for a comment and 5 for
\* fewer than 100 lines, capped at 100; it is 50 when the provider call fails.
C18_QualityRange ==
    (call.fn = "analyze_code" /\ Len(call.results) >= 2) =>
        LET quality_score == call.results[2]
            lines == call.code_content
            bonus == (IF lines["def"] > 0 THEN 5 ELSE 0)
                     + (IF lines["comment"] + lines["inline"] > 0 THEN 5 ELSE 0)
                     + (IF TotalLines(lines) < 100 THEN 5 ELSE 0)
            base_score == http[5].answer.score + bonus
        IN  /\ quality_score \in 0..100
            /\ Failed(5) => quality_score = 50
            /\ ~Failed(5) => quality_score = IF base_score > 100 THEN 100 ELSE base_score
            /\ AnalyzeDone => ret.value.quality_score = quality_score

C18_Witness ==
    /\ AnalyzeDone
    /\ ~Failed(5)
    /\ http[5].answer.score = 100
    /\ call.code_content["def"] > 0
    /\ ret.value.quality_score = 100

\* C19: the complexity metrics have code_lines <= total_lines, indeed
\* code_lines + comment_lines <= total_lines, and the rating is HIGH when
\* code_lines > 200, MEDIUM when 100 < code_lines <= 200, LOW otherwise.
C19_Complexity ==
    (call.fn = "analyze_code" /\ Len(call.results) >= 4) =>
        LET metrics == call.results[4]
        IN  /\ metrics.total_lines = TotalLines(call.code_content)
            /\ metrics.code_lines <= metrics.total_lines
            /\ metrics.code_lines + metrics.comment_lines <= metrics.total_lines
            /\ metrics.complexity_rating = "HIGH" <=> metrics.code_lines > 200
            /\ metrics.complexity_rating = "MEDIUM" <=>
                    (100 < metrics.code_lines /\ metrics.code_lines <= 200)
            /\ metrics.complexity_rating = "LOW" <=> metrics.code_lines <= 100

C19_Witness ==
    /\ AnalyzeDone
    /\ ret.value.complexity_analysis.code_lines = 201
    /\ ret.value.complexity_analysis.comment_lines = 0
    /\ ret.value.complexity_analysis.total_lines = 201
    /\ ret.value.complexity_analysis.complexity_rating = "HIGH"

\* C20: the overall rating is the letter bucket of the quality score minus 20
\* for each HIGH security finding, minus 15 for HIGH complexity or 5 for
\* MEDIUM complexity: at least 90 is A, 80 B, 70 C, 60 D, less is F. MEDIUM
\* findings subtract nothing, and the rating is always one of the five grades.
C20_OverallRating ==
    AnalyzeDone =>
        LET result == ret.value
            high == Cardinality({j \in 1..Len(result.security_issues) :
                                    result.security_issues[j].severity = "HIGH"})
            rating == result.complexity_analysis.complexity_rating
            score == result.quality_score - 20 * high
                        - (CASE rating = "HIGH" -> 15
                             [] rating = "MEDIUM" -> 5
                             [] OTHER -> 0)
        IN  result.overall_rating =
                CASE score >= 90 -> "A - Excellent"
                  [] score >= 80 /\ score < 90 -> "B - Good"
                  [] score >= 70 /\ score < 80 -> "C - Average"
                  [] score >= 60 /\ score < 70 -> "D - Needs Improvement"
                  [] OTHER -> "F - Major Issues Found"

C20_Witness ==
    /\ AnalyzeDone
    /\ \E i, j \in 1..Len(ret.value.security_issues) :
        /\ ret.value.security_issues[i].severity = "HIGH"
        /\ ret.value.security_issues[j].severity = "MEDIUM"
    /\ ret.value.complexity_analysis.complexity_rating = "MEDIUM"
    /\ ret.value.quality_score = 100
    /\ ret.value.overall_rating = "C - Average"

---------------------------------------------------------------------------
(* The closing remark of the summary *)

RECURSIVE SumIssues(_)
SumIssues(analysis_results) ==
    IF analysis_results = <<>> THEN 0
    ELSE analysis_results[1].issues_count + SumIssues(Tail(analysis_results))

\* C21: the closing remark of the summary comment is set by the total issue
\* count summed over the analysed files: 0 gives "Great job", 1 to 3 gives
\* "Good work", more than 3 gives "Attention needed"; a run over one file with
\* no finding and quality score 95 posts no detailed comment and one summary
\* with "Great job" and total issues 0.
C21_Remark ==
    \A r \in Reqs :
        /\ \A i \in PostsOfKind(r, "summary") :
            LET body == calls[r][i].body
                total == SumIssues(run[r].analysis_results)
            IN  /\ body.total_issues = total
                /\ total = 0 => body.remark = "Great job!"
                /\ total \in 1..3 => body.remark = "Good work!"
                /\ total > 3 => body.remark = "Attention needed."
        /\ (/\ run[r].pc = "completed"
            /\ Len(run[r].analysis_results) = 1
            /\ NFiles(r) = 1
            /\ run[r].analysis_results[1].result = [issues |-> 0, quality |-> 95])
            => /\ PostsOfKind(r, "detail") = {}
               /\ \E i \in PostsOfKind(r, "summary") :
                    /\ PostsOfKind(r, "summary") = {i}
                    /\ calls[r][i].body.remark = "Great job!"
                    /\ calls[r][i].body.total_issues = 0

C21_Witness ==
    \E r \in Reqs :
        /\ run[r].pc = "completed"
        /\ NFiles(r) = 1
        /\ Len(run[r].analysis_results) = 1
        /\ run[r].analysis_results[1].result = [issues |-> 0, quality |-> 95]
        /\ PostsOfKind(r, "detail") = {}
        /\ \E i \in PostsOfKind(r, "summary") :
            calls[r][i].body.remark = "Great job!"

\* The run of the scenario: an "opened" event whose one changed file,
\* src/main.py, was analysed with quality score 55 and one finding, has ended.
LowQualityScenario(r) ==
    /\ hw[r].event.pr_action = "opened"
    /\ run[r].pc = "completed"
    /\ run[r].changed_files = <<[keys |-> {"filename"}, filename |-> <<"src/main", "py">>]>>
    /\ Len(run[r].analysis_results) = 1
    /\ run[r].analysis_results[1].result = [issues |-> 1, quality |-> 55]

\* C22 as stated: in the scenario one detailed comment is posted for
\* src/main.py and the closing remark of the summary is "Attention needed".
C22_AsStated ==
    \A r \in Reqs :
        LowQualityScenario(r) =>
            /\ \E i \in PostsOfKind(r, "detail") :
                    PostsOfKind(r, "detail") = {i} /\ calls[r][i].body.idx = 1
            /\ \E i \in PostsOfKind(r, "summary") :
                    calls[r][i].body.remark = "Attention needed."

\* C22: for an "opened" pull-request event with the single changed file
\* src/main.py whose analysis gives quality score 55 and one finding (of HIGH
\* severity), one detailed comment is posted for src/main.py, and the summary
\* comment, with total issues 1, closes with the "Good work" remark.
C22_Scenario ==
    \A r \in Reqs :
        LowQualityScenario(r) =>
            /\ \E i \in PostsOfKind(r, "detail") :
                    /\ PostsOfKind(r, "detail") = {i}
                    /\ calls[r][i].body.idx = 1
                    /\ calls[r][i].body.quality = 55
                    /\ calls[r][i].body.issues = 1
            /\ \E i \in PostsOfKind(r, "summary") :
                    /\ PostsOfKind(r, "summary") = {i}
                    /\ calls[r][i].body.total_issues = 1
                    /\ calls[r][i].body.remark = "Good work!"

C22_Witness ==
    \E r \in Reqs :
        /\ LowQualityScenario(r)
        /\ Cardinality(PostsOfKind(r, "detail")) = 1
        /\ Cardinality(PostsOfKind(r, "summary")) = 1

---------------------------------------------------------------------------
(* database/schemas.py: the processing status of a WebhookEventRecord *)

\* The most mark_processing_* calls made on one record.
MaxMarks == 4

\* A record as the insert leaves it: the column defaults, and NULL (None, 0
\* for a timestamp) in the nullable columns. `now` is the database clock,
\* which func.now() reads.
RecordInit ==
    /\ NoDelivery
    /\ call = [fn |-> "WebhookEventRecord", pc |-> "stored",
               status |-> "received",
               processing_started_at |-> 0,
               processing_completed_at |-> 0,
               error_message |-> PyNone,
               analysis_triggered |-> FALSE,
               analysis_id |-> PyNone,
               now |-> 1]
    /\ http = <<>>
    /\ ret = NoReturn

MarkProcessingStarted ==
    /\ call.fn = "WebhookEventRecord"
    /\ call.now <= MaxMarks
    /\ call' = [call EXCEPT !.status = "processing",
                            !.processing_started_at = call.now,
                            !.now = @ + 1]
    /\ UNCHANGED <<hw, run, calls, logged, http, ret>>

MarkProcessingCompleted ==
    /\ call.fn = "WebhookEventRecord"
    /\ call.now <= MaxMarks
    /\ \E analysis_id \in {PyNone, PyStr(<<>>), PyStr(<<"a">>)} :
        call' = [call EXCEPT !.status = "completed",
                             !.processing_completed_at = call.now,
                             !.analysis_triggered =
                                IF Truthy(analysis_id) THEN TRUE ELSE @,
                             !.analysis_id =
                                IF Truthy(analysis_id) THEN analysis_id ELSE @,
                             !.now = @ + 1]
    /\ UNCHANGED <<hw, run, calls, logged, http, ret>>

MarkProcessingFailed ==
    /\ call.fn = "WebhookEventRecord"
    /\ call.now <= MaxMarks
    /\ \E error_message \in {PyStr(<<"a">>), PyStr(<<"b">>)} :
        call' = [call EXCEPT !.status = "failed",
                             !.processing_completed_at = call.now,
                             !.error_message = error_message,
                             !.now = @ + 1]
    /\ UNCHANGED <<hw, run, calls, logged, http, ret>>

RecordNext ==
    \/ MarkProcessingStarted
    \/ MarkProcessingCompleted
    \/ MarkProcessingFailed

RecordSpec == RecordInit /\ [][RecordNext]_vars

\* C23 as stated: the status of a WebhookEventRecord only moves
\* received -> processing -> {completed, failed}: whatever mark_processing_*
\* calls are made, a completed or failed record never changes status again, a
\* received record does not become completed or failed without having been
\* processing, and a processing record does not go back to received.
C23_AsStated ==
    [][call.fn = "WebhookEventRecord" =>
        \/ call'.status = call.status
        \/ call.status = "received" /\ call'.status = "processing"
        \/ call.status = "processing" /\ call'.status \in {"completed", "failed"}]_vars

---------------------------------------------------------------------------
(* Events without a processor, and the result of handle_webhook *)

\* Delivery r was a recognised event other than pull_request, and was answered.
NoProcessorEvent(r) ==
    /\ hw[r].pc = "returned"
    /\ hw[r].event_type \in {"push", "pull_request_review", "check_run"}

\* C24 as stated: a push, pull_request_review or check_run event is accepted
\* with a success result and triggers no further action.
C24_AsStated ==
    \A r \in Reqs :
        NoProcessorEvent(r) =>
            /\ hw[r].response.status = "success"
            /\ NoSideEffects(r)

\* C24 (amended): a push, pull_request_review or check_run event triggers no
\* further action (no GitHub call, no comment, no background task); it is
\* accepted with a success result when its payload can be read, and answered
\* with an error result when reading the payload raises.
C24_NoProcessor ==
    \A r \in Reqs :
        NoProcessorEvent(r) =>
            /\ hw[r].response =
                    (IF hw[r].payload.well_formed
                     THEN SuccessResponse ELSE ExceptionResponse)
            /\ NoSideEffects(r)

C24_Witness ==
    \E r \in Reqs :
        /\ NoProcessorEvent(r)
        /\ hw[r].event_type = "push"
        /\ hw[r].payload.well_formed
        /\ hw[r].response = SuccessResponse
        /\ NoSideEffects(r)

\* Delivery r is a pull_request event with a supported action whose payload
\* was parsed.
SupportedPullRequest(r) ==
    /\ hw[r].event_type = "pull_request"
    /\ hw[r].payload.well_formed
    /\ hw[r].payload.action \in {"opened", "synchronize", "reopened", "ready_for_review"}

\* process_pull_request_event returned False for r: no pull request number,
\* or get_pull_request_info gave None.
ProcessorFailed(r) ==
    /\ hw[r].event_type = "pull_request"
    /\ hw[r].payload.well_formed
    /\ \/ hw[r].payload.number = 0
       \/ SupportedPullRequest(r) /\ hw[r].pr_info = "None"

\* C28: handle_webhook never raises, for any event type and payload: every
\* call returns a dictionary whose status is "ignored", "success" or "error",
\* and the status is "error" exactly when parsing the payload raised (the
\* "Webhook processing failed" message) or the processor reported failure (the
\* "Event processing failed" message).
C28_AlwaysAnswers ==
    /\ \A r \in Reqs :
        [](hw[r].pc = "returned" =>
            /\ hw[r].response.status \in {"ignored", "success", "error"}
            /\ hw[r].response = ExceptionResponse <=> ~hw[r].payload.well_formed
            /\ hw[r].response = FailedResponse <=> ProcessorFailed(r)
            /\ hw[r].response.status = "error" <=>
                    hw[r].response \in {ExceptionResponse, FailedResponse})
    /\ \A r \in Reqs : (hw[r].pc # "idle") ~> (hw[r].pc = "returned")

C28_Witness ==
    \E r \in Reqs :
        /\ hw[r].pc = "returned"
        /\ hw[r].event_type = "check_run"
        /\ ~hw[r].payload.well_formed
        /\ hw[r].response = ExceptionResponse

\* C29: for a pull_request event with a supported action, when the pull
\* request number is missing or get_pull_request_info returns None, the
\* result is "error" and nothing else happens: the changed-file list is not
\* fetched, no comment is posted and no background task is started.
C29_NoPrInfo ==
    \A r \in Reqs :
        (hw[r].pc = "returned" /\ SupportedPullRequest(r) /\ ProcessorFailed(r)) =>
            /\ hw[r].response = FailedResponse
            /\ \A i \in 1..Len(calls[r]) :
                    /\ calls[r][i].op # "fetch_pull_request_files"
                    /\ ~IsPost(calls[r][i])
            /\ calls[r] = IF hw[r].payload.number = 0 THEN <<>>
                          ELSE <<Get("handler", "get_pull_request_info")>>
            /\ hw[r].tasks_created = 0
            /\ run[r] = InitRun

C29_Witness ==
    \E r \in Reqs :
        /\ hw[r].pc = "returned"
        /\ SupportedPullRequest(r)
        /\ hw[r].payload.number = 42
        /\ hw[r].pr_info = "None"
        /\ calls[r] = <<Get("handler", "get_pull_request_info")>>
        /\ hw[r].response = FailedResponse

---------------------------------------------------------------------------
(* database/connection.py and api/dependencies.py: the session of a request *)

\* The requests whose database dependency is followed.
MaxSessions == 2

\* What session_factory() returns, with the calls made on it in order.
NewSession == [type |-> "Session", log |-> <<>>]

\* What calling a generator function returns: a generator whose body has not
\* started; `closed` after its close().
NewGenerator(of) == [type |-> "generator", of |-> of, closed |-> FALSE]

\* One request with its database dependency: the generator function FastAPI
\* iterates, where it stands, what it yielded to the endpoint, how the
\* endpoint ended and what comes out of the dependency at the end.
SessionInit ==
    /\ NoDelivery
    /\ call \in
        [fn : {"request"},
         dep : [1..MaxSessions ->
                    [fn : {"get_db_session", "get_database"}, pc : {"called"},
                     db : {PyNone}, body : {"running"}, raised : {"None"}]]]
    /\ http = <<>>
    /\ ret = NoReturn

\* get_db_session up to its yield, lines 102-106.
GetDbSession(q) ==
    /\ call.fn = "request"
    /\ call.dep[q].fn = "get_db_session"
    /\ call.dep[q].pc = "called"
    /\ call' = [call EXCEPT !.dep[q].pc = "yielded", !.dep[q].db = NewSession]
    /\ UNCHANGED <<hw, run, calls, logged, http, ret>>

\* get_db_session from its yield on, lines 106-112: the endpoint finished
\* cleanly (next), or raised and the exception is thrown in at the yield.
GetDbSessionResumes(q) ==
    /\ call.fn = "request"
    /\ call.dep[q].fn = "get_db_session"
    /\ call.dep[q].pc = "yielded"
    /\ \E body \in {"clean", "Exception", "BaseException"},
          commit \in {"None", "Exception"} :
        LET log == call.dep[q].db.log
            outcome ==
                IF body = "clean"
                THEN IF commit = "None"
                     THEN [log |-> log \o <<"commit", "close">>, raised |-> "None"]
                     ELSE [log |-> log \o <<"commit", "rollback", "close">>,
                           raised |-> commit]
                ELSE IF body = "Exception"
                THEN [log |-> log \o <<"rollback", "close">>, raised |-> body]
                ELSE [log |-> log \o <<"close">>, raised |-> body]
        IN  /\ body # "clean" => commit = "None"
            /\ call' = [call EXCEPT !.dep[q].pc = "done",
                                    !.dep[q].body = body,
                                    !.dep[q].db.log = outcome.log,
                                    !.dep[q].raised = outcome.raised]
    /\ UNCHANGED <<hw, run, calls, logged, http, ret>>

\* get_database up to its yield, lines 46-48: get_db_session() is called and
\* its result, a generator, is yielded as it is.
GetDatabase(q) ==
    /\ call.fn = "request"
    /\ call.dep[q].fn = "get_database"
    /\ call.dep[q].pc = "called"
    /\ call' = [call EXCEPT !.dep[q].pc = "yielded",
                            !.dep[q].db = NewGenerator("get_db_session")]
    /\ UNCHANGED <<hw, run, calls, logged, http, ret>>

\* get_database from its yield on, lines 48-50: db.close() closes the
\* generator, whose body never ran; an exception thrown in goes on.
GetDatabaseResumes(q) ==
    /\ call.fn = "request"
    /\ call.dep[q].fn = "get_database"
    /\ call.dep[q].pc = "yielded"
    /\ \E body \in {"clean", "Exception", "BaseException"} :
        call' = [call EXCEPT !.dep[q].pc = "done",
                             !.dep[q].body = body,
                             !.dep[q].db.closed = TRUE,
                             !.dep[q].raised = IF body = "clean" THEN "None" ELSE body]
    /\ UNCHANGED <<hw, run, calls, logged, http, ret>>

SessionNext ==
    \E q \in 1..MaxSessions :
        \/ GetDbSession(q)
        \/ GetDbSessionResumes(q)
        \/ GetDatabase(q)
        \/ GetDatabaseResumes(q)

SessionSpec == SessionInit /\ [][SessionNext]_vars

\* C25 as stated: when a request is over, the session its dependency handed
\* out (get_db_session, or get_database) was committed exactly once and then
\* closed if the request body finished cleanly, and rolled back and then
\* closed, with the exception raised again, if it raised; never both.
C25_AsStated ==
    call.fn = "request" =>
        \A q \in 1..MaxSessions :
            call.dep[q].pc = "done" =>
                /\ call.dep[q].db.type = "Session"
                /\ call.dep[q].body = "clean" =>
                        call.dep[q].db.log = <<"commit", "close">>
                /\ call.dep[q].body # "clean" =>
                        /\ call.dep[q].db.log = <<"rollback", "close">>
                        /\ call.dep[q].raised = call.dep[q].body

---------------------------------------------------------------------------
(* api/dependencies.py: rate_limit *)

\* The last reading of the clock; time.time() starts at 0 and does not go back.
MaxTime == 3

ClientHosts == {"10.0.0.1", "10.0.0.2"}

\* request_counts.get(client_ip, [])
GetCounts(request_counts, client_ip) ==
    IF client_ip \in DOMAIN request_counts THEN request_counts[client_ip] ELSE <<>>

\* Lines 123-127: the timestamps later than the cutoff.
CleanUp(timestamps, cutoff_time) ==
    LET Recent(timestamp) == timestamp > cutoff_time
    IN  SelectSeq(timestamps, Recent)

\* Line 130 with > in the place of >=.
LimitExceeded_Above(timestamps, max_requests) == Len(timestamps) > max_requests

\* Line 130.
LimitExceeded(timestamps, max_requests) == Len(timestamps) >= max_requests

\* One decorator made by rate_limit(max_requests, window_seconds), with its
\* request_counts, empty at first; `admitted` keeps every timestamp that was
\* ever recorded for a host, `running` counts the wrapped handlers that have
\* been called and have not returned.
RateLimitInit ==
    /\ NoDelivery
    /\ call \in
        [fn : {"rate_limit"}, max_requests : {1, 2}, window_seconds : {1, 2},
         request_counts : {<<>>}, now : {0}, client_ip : {""},
         admitted : {[h \in ClientHosts |-> <<>>]}, running : {0}]
    /\ http = <<>>
    /\ ret = NoReturn

\* The wrapper from its call to `await func(...)` or to the raise, lines
\* 119-143; there is no await in between.
Wrapper ==
    /\ call.fn = "rate_limit"
    /\ \E client_ip \in ClientHosts :
        LET current_time == call.now
            cutoff_time == current_time - call.window_seconds
            cleaned == (client_ip :> CleanUp(GetCounts(call.request_counts, client_ip),
                                             cutoff_time))
                            @@ call.request_counts
        IN  IF LimitExceeded(GetCounts(cleaned, client_ip), call.max_requests)
            THEN /\ call' = [call EXCEPT !.request_counts = cleaned,
                                         !.client_ip = client_ip]
                 /\ ret' = HTTPException(429, "Rate limit exceeded")
            ELSE /\ call' = [call EXCEPT
                                !.request_counts =
                                    (client_ip :> Append(cleaned[client_ip], current_time))
                                        @@ cleaned,
                                !.client_ip = client_ip,
                                !.admitted[client_ip] = Append(@, current_time),
                                !.running = @ + 1]
                 /\ ret' = [kind |-> "await", value |-> "func"]
    /\ UNCHANGED <<hw, run, calls, logged, http>>

\* A wrapped handler that was awaited returns.
FuncReturns ==
    /\ call.fn = "rate_limit"
    /\ call.running > 0
    /\ call' = [call EXCEPT !.running = @ - 1]
    /\ UNCHANGED <<hw, run, calls, logged, http, ret>>

\* Time passes.
ClockAdvances ==
    /\ call.fn = "rate_limit"
    /\ call.now < MaxTime
    /\ call' = [call EXCEPT !.now = @ + 1]
    /\ UNCHANGED <<hw, run, calls, logged, http, ret>>

RateLimitNext ==
    \/ Wrapper
    \/ FuncReturns
    \/ ClockAdvances

RateLimitSpec == RateLimitInit /\ [][RateLimitNext]_vars

\* The admitted requests of a host whose timestamps lie within the last
\* window_seconds.
InWindow(client_ip) ==
    {i \in 1..Len(call.admitted[client_ip]) :
        call.admitted[client_ip][i] > call.now - call.window_seconds}

\* The last request was rejected with 429.
Rejected == ret.kind = "raise" /\ ret.status_code = 429

\* C26: for each client IP, whatever the interleaving of the requests being
\* handled, the admitted requests with a timestamp within the last
\* window_seconds are never more than max_requests; a request that arrives
\* when max_requests admitted requests are in the window gets 429 without the
\* wrapped handler being called and without being recorded; and the counts of
\* one client IP do not depend on the requests of another.
C26_RateLimit ==
    [][call.fn = "rate_limit" =>
        /\ \A h \in ClientHosts : Cardinality(InWindow(h))' <= call.max_requests
        /\ \A h \in ClientHosts :
            (call'.client_ip = h /\ call'.now = call.now /\ call'.running >= call.running) =>
                /\ Cardinality(InWindow(h)) = call.max_requests
                    <=> (Rejected' /\ call'.admitted = call.admitted
                            /\ call'.running = call.running
                            /\ Len(GetCounts(call.request_counts, h)')
                                    = call.max_requests)
                /\ Cardinality(InWindow(h)) < call.max_requests
                    <=> (~Rejected' /\ call'.running = call.running + 1
                            /\ call'.admitted[h] = Append(call.admitted[h], call.now))
                /\ \A g \in ClientHosts \ {h} :
                    /\ call'.admitted[g] = call.admitted[g]
                    /\ GetCounts(call.request_counts, g)' = GetCounts(call.request_counts, g)]_vars

C26_Witness ==
    /\ call.fn = "rate_limit"
    /\ call.max_requests = 2
    /\ Rejected
    /\ call.client_ip = "10.0.0.1"
    /\ call.running = 2
    /\ Cardinality(InWindow("10.0.0.1")) = 2
    /\ Len(call.admitted["10.0.0.1"]) = 3
    /\ Cardinality(InWindow("10.0.0.2")) = 1

---------------------------------------------------------------------------
(* utils/helpers.py: retry_with_backoff and async_retry_with_backoff *)

\* The largest max_retries a wrapper is made with.
MaxRetries == 2

\* The wrapper is made with exceptions=(ConnectionError,).
RetriedExceptions == {"ConnectionError"}

\* Lines 228 and 265 with the exponent one too high.
Delay_NextAttempt(backoff_factor, attempt) == backoff_factor * (2 ^ (attempt + 1))

\* Lines 228 and 265.
Delay(backoff_factor, attempt) == backoff_factor * (2 ^ attempt)

\* One call of a wrapped function: `invoked` counts the calls of func,
\* `raised` keeps what func raised, `slept` the delays waited, in order.
RetryInit ==
    /\ NoDelivery
    /\ call \in
        [fn : {"retry_with_backoff", "async_retry_with_backoff"}, pc : {"called"},
         max_retries : -1..MaxRetries, backoff_factor : {1, 3},
         attempt : {0}, invoked : {0}, raised : {<<>>}, slept : {<<>>}]
    /\ http = <<>>
    /\ ret = NoReturn

IsRetry == call.fn \in {"retry_with_backoff", "async_retry_with_backoff"}

\* The loop head, lines 218 and 255: the next attempt calls func; with no
\* attempt left (max_retries < 0 only) the loop ends and `raise
\* last_exception` raises TypeError, last_exception being None.
NextAttempt(attempt) ==
    IF attempt \in 0..call.max_retries
    THEN /\ call' = [call EXCEPT !.pc = "func", !.attempt = attempt,
                                 !.invoked = @ + 1]
         /\ UNCHANGED ret
    ELSE /\ call' = [call EXCEPT !.pc = "done"]
         /\ ret' = [kind |-> "raise", exc |-> [type |-> "TypeError", attempt |-> attempt]]

\* wrapper(*args, **kwargs) is called.
RetryWrapper ==
    /\ IsRetry
    /\ call.pc = "called"
    /\ NextAttempt(0)
    /\ UNCHANGED <<hw, run, calls, logged, http>>

\* func returns: the wrapper returns its result, lines 220 and 257.
FuncSucceeds ==
    /\ IsRetry
    /\ call.pc = "func"
    /\ Ends(Returned([attempt |-> call.attempt]))
    /\ UNCHANGED <<hw, run, calls, logged, http>>

\* func raises, lines 221-230 and 258-267: an exception outside the tuple
\* goes on; one of the tuple is raised again on the last attempt, and is
\* followed by a sleep otherwise.
FuncRaises ==
    /\ IsRetry
    /\ call.pc = "func"
    /\ \E type \in {"ConnectionError", "KeyError"} :
        LET e == [type |-> type, attempt |-> call.attempt]
        IN  IF type \notin RetriedExceptions
            THEN /\ call' = [call EXCEPT !.pc = "done", !.raised = Append(@, e)]
                 /\ ret' = [kind |-> "raise", exc |-> e]
            ELSE IF call.attempt = call.max_retries
            THEN /\ call' = [call EXCEPT !.pc = "done", !.raised = Append(@, e)]
                 /\ ret' = [kind |-> "raise", exc |-> e]
            ELSE /\ call' = [call EXCEPT
                                !.pc = "sleep",
                                !.raised = Append(@, e),
                                !.slept = Append(@, Delay(call.backoff_factor,
                                                          call.attempt))]
                 /\ UNCHANGED ret
    /\ UNCHANGED <<hw, run, calls, logged, http>>

\* time.sleep / asyncio.sleep returns and the loop goes on.
SleepReturns ==
    /\ IsRetry
    /\ call.pc = "sleep"
    /\ NextAttempt(call.attempt + 1)
    /\ UNCHANGED <<hw, run, calls, logged, http>>

RetryNext ==
    \/ RetryWrapper
    \/ FuncSucceeds
    \/ FuncRaises
    \/ SleepReturns

RetrySpec == RetryInit /\ [][RetryNext]_vars

\* C27: one call of a function wrapped by retry_with_backoff or
\* async_retry_with_backoff invokes it at most max_retries + 1 times: the
\* first successful result is returned with no further invocation, the wait
\* before retry number attempt+1 is backoff_factor * 2^attempt, the last
\* exception is raised again after the (max_retries + 1)-th failure, and an
\* exception outside the configured tuple goes on at once, without a retry.
C27_Retry ==
    IsRetry =>
        /\ call.invoked <= call.max_retries + 1
        /\ Len(call.slept) <= call.invoked
        /\ \A k \in 1..Len(call.slept) :
                /\ call.slept[k] = call.backoff_factor * (2 ^ (k - 1))
                /\ call.raised[k].type \in RetriedExceptions
        /\ \A k \in 1..Len(call.raised) : call.raised[k].attempt = k - 1
        /\ (call.pc = "done" /\ ret.kind = "return") =>
                /\ ret.value.attempt = call.invoked - 1
                /\ Len(call.raised) = call.invoked - 1
                /\ Len(call.slept) = call.invoked - 1
        /\ (call.pc = "done" /\ ret.kind = "raise" /\ call.invoked > 0) =>
                /\ ret.exc = call.raised[call.invoked]
                /\ Len(call.raised) = call.invoked
                /\ Len(call.slept) = call.invoked - 1
                /\ ret.exc.type \in RetriedExceptions =>
                        call.invoked = call.max_retries + 1

C27_Witness ==
    /\ IsRetry
    /\ call.pc = "done"
    /\ call.max_retries = 2
    /\ call.backoff_factor = 3
    /\ call.invoked = 3
    /\ call.slept = <<3, 6>>
    /\ ret = [kind |-> "raise", exc |-> [type |-> "ConnectionError", attempt |-> 2]]

---------------------------------------------------------------------------
(* Background runs of two webhook events *)

\* Two deliveries for pull request 42, "opened" and then "synchronize".
Deliveries == {1, 2}

\* handle_webhook has returned for a qualifying pull_request event and has
\* created the task for changed_files.
Delivered(action, changed_files) ==
    Return([InitHw EXCEPT !.event_type = "pull_request",
                          !.payload = [well_formed |-> TRUE, action |-> action,
                                       number |-> 42],
                          !.event = [event_type |-> "pull_request",
                                     pr_action |-> action, pr_number |-> 42],
                          !.pr_info = "PullRequestInfo",
                          !.changed_files = changed_files,
                          !.tasks_created = 1],
           SuccessResponse)

\* Both events have been answered and neither task has run yet.
ConcurrentInit ==
    /\ \E changed_files \in
            [Deliveries -> {fs \in FileLists :
                                /\ Len(fs) \in 1..2
                                /\ \A i \in 1..Len(fs) : ShouldAnalyzeFile(fs[i].filename)}] :
        /\ hw = [r \in Deliveries |->
                    Delivered(IF r = 1 THEN "opened" ELSE "synchronize",
                              changed_files[r])]
        /\ run = [r \in Deliveries |-> CreateTask(InitRun, changed_files[r])]
    /\ calls = [r \in Deliveries |->
                    <<Get("handler", "get_pull_request_info"),
                      Get("handler", "fetch_pull_request_files")>>]
    /\ logged = [r \in Deliveries |-> <<>>]
    /\ call = NoCall
    /\ http = <<>>
    /\ ret = NoReturn

\* The event loop resumes either task.
ConcurrentNext == \E r \in Deliveries : TaskStep(r)

ConcurrentSpec == ConcurrentInit /\ [][ConcurrentNext]_vars

\* Both runs are under way at once.
Interleaved ==
    \A r \in Deliveries : run[r].pc \notin {"none", "created", "completed", "failed"}

\* C30: background runs started by different webhook events, two events for
\* the same pull request included, share no accumulator: however the runs
\* interleave, a step of one run leaves the file list and the total of the
\* other as they were, the files a run has tracked are files of its own list
\* in list order, and the file count and the total issue count of a run's
\* summary comment are the number of files that run analysed and the sum of
\* their issue counts.
C30_OwnAccumulators ==
    /\ \A r \in Deliveries :
        [](/\ run[r].total_issues = SumIssues(run[r].analysis_results)
           /\ Len(run[r].analysis_results) <= Len(run[r].changed_files)
           /\ \A k \in 1..Len(run[r].analysis_results) :
                \E i \in k..Len(run[r].changed_files) :
                    run[r].analysis_results[k].file = run[r].changed_files[i].filename
           /\ \A i \in PostsOfKind(r, "summary") :
                /\ calls[r][i].body.files_analyzed = Len(run[r].analysis_results)
                /\ calls[r][i].body.total_issues = SumIssues(run[r].analysis_results)
                /\ calls[r][i].body.files_analyzed =
                        Cardinality(LoggedOf(r, "Analyzing file"))
                            - Cardinality(LoggedOf(r, "Could not fetch content")))
    /\ [][\A r \in Deliveries :
            run'[r] # run[r] =>
                \A q \in Deliveries \ {r} :
                    run'[q] = run[q] /\ calls'[q] = calls[q]]_vars

C30_Witness ==
    /\ DOMAIN run = Deliveries
    /\ Interleaved
    /\ Len(run[1].changed_files) = 2
    /\ Len(run[1].analysis_results) = 1
    /\ run[1].total_issues = 4
    /\ run[2].pc = "post_summary"
    /\ Len(run[2].analysis_results) = 2
    /\ \E i \in PostsOfKind(2, "summary") :
            /\ calls[2][i].body.files_analyzed = 2
            /\ calls[2][i].body.total_issues = 1

====
